---- MODULE Spec2Model ----
(***************************************************************************)
(* The Data Domain engine of bureaucrat-api: the lazily loaded, memoized   *)
(* entity-metadata cache (DataDomain.entityTypes), introspection of the    *)
(* domain store into the metadata store, and the metadata-driven           *)
(* read/update/delete operations built on the SQL statement builders.      *)
(***************************************************************************)
EXTENDS Integers, Sequences, FiniteSets, TLC

(***************************************************************************)
(* JavaScript / SQLite values, encoded as integers so that values of       *)
(* different JS types can be compared: 0..9 are numbers, 10.. are strings. *)
(***************************************************************************)
Undef == -2
Null == -1
EmptyStr == 10
StrA == 11
StrB == 12
JsFalse == 20
JsTrue == 21

\* JS truthiness (`if (x)`, `x || y`, `filter(f => f.identifier)`)
Truthy(v) == v \notin {Undef, Null, 0, EmptyStr, JsFalse}

\* what the sqlite3 driver binds for a JS value: booleans become 0/1, an
\* undefined parameter is left unbound, which SQLite reads as NULL
Bind(v) ==
  CASE v = JsTrue -> 1
    [] v = JsFalse -> 0
    [] v = Undef -> Null
    [] OTHER -> v

\* data[key] on a JS object: undefined when the key is absent
Get(obj, key) == IF key \in DOMAIN obj THEN obj[key] ELSE Undef

EmptyObj == [k \in {} |-> Undef]

Range(s) == {s[i] : i \in DOMAIN s}

(***************************************************************************)
(* Bounds of the model.                                                    *)
(***************************************************************************)
MaxCallers == 2
MaxCalls == 2
MaxBuilderCalls == 3

Callers == 1..MaxCallers

(***************************************************************************)
(* The domain store: table listing, PRAGMA_TABLE_INFO and the rows.        *)
(***************************************************************************)
\* the table listings of the domain stores considered (sqlite_master order)
DomainLayouts ==
  { <<"user", "sqlite_sequence", "grant">>,
    <<"user", "sqlite_sequence", "blob">> }

\* PRAGMA_TABLE_INFO(t): name, declared type, notnull and pk (the 1-based
\* position of the column in the primary key, 0 when it is not part of it)
TableInfo(t) ==
  CASE t = "user" ->
         << [name |-> "id", type |-> "INTEGER", notnull |-> 0, pk |-> 1],
            [name |-> "first_name", type |-> "TEXT", notnull |-> 1, pk |-> 0],
            [name |-> "middle_name", type |-> "TEXT", notnull |-> 0, pk |-> 0] >>
    [] t = "grant" ->
         << [name |-> "user_id", type |-> "INTEGER", notnull |-> 0, pk |-> 1],
            [name |-> "feature_id", type |-> "INTEGER", notnull |-> 0, pk |-> 2],
            [name |-> "level", type |-> "TEXT", notnull |-> 0, pk |-> 0] >>
    [] t = "blob" ->
         << [name |-> "id", type |-> "INTEGER", notnull |-> 0, pk |-> 1],
            [name |-> "data", type |-> "BLOB", notnull |-> 0, pk |-> 0] >>
    [] t = "item" ->
         << [name |-> "id", type |-> "INTEGER", notnull |-> 1, pk |-> 1],
            [name |-> "name", type |-> "TEXT", notnull |-> 1, pk |-> 0] >>
    [] t = "note" ->
         << [name |-> "title", type |-> "TEXT", notnull |-> 1, pk |-> 0],
            [name |-> "body", type |-> "TEXT", notnull |-> 0, pk |-> 0] >>
    [] t = "sqlite_sequence" ->
         << [name |-> "name", type |-> "", notnull |-> 0, pk |-> 0],
            [name |-> "seq", type |-> "", notnull |-> 0, pk |-> 0] >>

\* the rows the domain store holds when the engine is constructed
InitialRows(t) ==
  CASE t = "user" ->
         << [id |-> 1, first_name |-> StrA, middle_name |-> EmptyStr],
            [id |-> 2, first_name |-> StrB, middle_name |-> StrB] >>
    [] t = "grant" ->
         << [user_id |-> 1, feature_id |-> 1, level |-> StrA],
            [user_id |-> 1, feature_id |-> 2, level |-> StrB],
            [user_id |-> 2, feature_id |-> 1, level |-> StrA] >>
    [] t = "blob" -> << [id |-> 1, data |-> StrA] >>
    [] t = "item" -> << [id |-> 1, name |-> StrA] >>
    [] t = "note" -> << [title |-> StrA, body |-> StrB],
                        [title |-> StrB, body |-> StrB] >>
    [] t = "sqlite_sequence" -> << [name |-> StrA, seq |-> 2] >>

\* SQL `column = ?`: never true when the parameter is NULL or left unbound
SqlEqual(x, param) == Bind(param) # Null /\ x = Bind(param)

\* the WHERE clause of a rendered statement, on one row
Matches(row, whereF, whereV) ==
  \A i \in DOMAIN whereF : SqlEqual(row[whereF[i]], whereV[i])

PkColumns(t) ==
  {TableInfo(t)[i].name : i \in {j \in DOMAIN TableInfo(t) : TableInfo(t)[j].pk > 0}}

NotNullColumns(t) ==
  {TableInfo(t)[i].name : i \in {j \in DOMAIN TableInfo(t) : TableInfo(t)[j].notnull = 1}}

\* the constraints SQLite enforces on a table: NOT NULL columns and a
\* primary key that no two rows share (NULLs never collide)
ConstraintsHold(t, rows) ==
  /\ \A i \in DOMAIN rows : \A c \in NotNullColumns(t) : rows[i][c] # Null
  /\ PkColumns(t) # {} =>
       \A i, j \in DOMAIN rows :
         (i # j /\ \A c \in PkColumns(t) : rows[i][c] # Null /\ rows[i][c] = rows[j][c])
           => FALSE

\* Database.all on a rendered Select: the rows the WHERE clause keeps, in
\* table order, cut by LIMIT ? (a negative LIMIT is no limit)
DbAll(rows, stmt) ==
  LET kept == SelectSeq(rows, LAMBDA r : Matches(r, stmt.whereF, stmt.whereV))
  IN IF stmt.limit = Undef \/ stmt.limit < 0 \/ stmt.limit >= Len(kept) THEN kept
     ELSE SubSeq(kept, 1, stmt.limit)

\* one row after `SET col = ?, ...`
SetRow(row, setF, setV) ==
  [c \in DOMAIN row |->
     IF \E i \in DOMAIN setF : setF[i] = c
     THEN Bind(setV[CHOOSE i \in DOMAIN setF :
                      setF[i] = c /\ \A j \in DOMAIN setF : setF[j] = c => j <= i])
     ELSE row[c]]

\* a store that reports as changed the rows whose values an Update has
\* altered, not the rows it has matched
DbRunCountingAltered(t, rows, stmt) ==
  LET hit == {i \in DOMAIN rows : Matches(rows[i], stmt.whereF, stmt.whereV)}
      after ==
        IF stmt.kind = "update"
        THEN [i \in DOMAIN rows |->
                IF i \in hit THEN SetRow(rows[i], stmt.setF, stmt.setV) ELSE rows[i]]
        ELSE SelectSeq(rows, LAMBDA r : ~Matches(r, stmt.whereF, stmt.whereV))
  IN IF ConstraintsHold(t, after)
     THEN [failed |-> FALSE, rows |-> after,
           changes |-> IF stmt.kind = "update"
                       THEN Cardinality({i \in hit : after[i] # rows[i]})
                       ELSE Cardinality(hit)]
     ELSE [failed |-> TRUE, rows |-> rows, changes |-> 0]

\* Database.run on a rendered Update or Delete: the new rows of the table,
\* the reported `changes`, or a failure that leaves the table as it was
DbRun(t, rows, stmt) ==
  LET hit == {i \in DOMAIN rows : Matches(rows[i], stmt.whereF, stmt.whereV)}
      after ==
        IF stmt.kind = "update"
        THEN [i \in DOMAIN rows |->
                IF i \in hit THEN SetRow(rows[i], stmt.setF, stmt.setV) ELSE rows[i]]
        ELSE SelectSeq(rows, LAMBDA r : ~Matches(r, stmt.whereF, stmt.whereV))
  IN IF ConstraintsHold(t, after)
     THEN [failed |-> FALSE, rows |-> after, changes |-> Cardinality(hit)]
     ELSE [failed |-> TRUE, rows |-> rows, changes |-> 0]

\* the column that stands for the rowid of a table: the one column of an
\* INTEGER PRIMARY KEY, or "" when the table has none
RowidColumn(t) ==
  LET pks == {i \in DOMAIN TableInfo(t) : TableInfo(t)[i].pk > 0}
  IN IF Cardinality(pks) = 1 /\ \A i \in pks : TableInfo(t)[i].type = "INTEGER"
     THEN TableInfo(t)[CHOOSE i \in pks : TRUE].name
     ELSE ""

\* the name under which sqlite_sequence keeps the last rowid of a table
\* declared AUTOINCREMENT (Undef for a table declared without)
SequenceName(t) == IF t = "user" THEN StrA ELSE Undef

Max(S) == CHOOSE m \in S : \A n \in S : n <= m

\* the rowid SQLite gives to a new row that brings none: one more than the
\* largest in the table and, under AUTOINCREMENT, than the largest ever given
NextRowid(t, rows, sequence) ==
  1 + Max({0} \cup {rows[i][RowidColumn(t)] : i \in DOMAIN rows}
              \cup {sequence[i].seq :
                      i \in {j \in DOMAIN sequence : sequence[j].name = SequenceName(t)}})

\* Database.run on a rendered Insert into a table whose primary key stands
\* for the rowid: the new rows of the table and of sqlite_sequence and the
\* reported lastID, or a failure that leaves both as they were
DbInsert(t, rows, sequence, stmt) ==
  LET given == SetRow([c \in {TableInfo(t)[i].name : i \in DOMAIN TableInfo(t)} |-> Null],
                      stmt.setF, stmt.setV)
      rowid == IF given[RowidColumn(t)] = Null THEN NextRowid(t, rows, sequence)
               ELSE given[RowidColumn(t)]
      row == [given EXCEPT ![RowidColumn(t)] = rowid]
      after == Append(rows, row)
  IN IF rowid \in 0..9 /\ ConstraintsHold(t, after)
            /\ \A c \in NotNullColumns(t) : given[c] # Null
     THEN [failed |-> FALSE, rows |-> after, lastID |-> rowid,
           sequence |-> [i \in DOMAIN sequence |->
                           IF sequence[i].name = SequenceName(t) /\ sequence[i].seq < rowid
                           THEN [sequence[i] EXCEPT !.seq = rowid] ELSE sequence[i]]]
     ELSE [failed |-> TRUE, rows |-> rows, lastID |-> 0, sequence |-> sequence]

(***************************************************************************)
(* Errors: one kind per `throw` of the source, with the name or the count  *)
(* its message carries.                                                    *)
(***************************************************************************)
NoError == [kind |-> "", name |-> "", count |-> 0]
Err(kind, name, count) == [kind |-> kind, name |-> name, count |-> count]

(***************************************************************************)
(* The SQL statement builders (db/sql.ts).                                 *)
(***************************************************************************)
\* new WhereBuilder() / new AttributionBuilder(): no field, no value
EmptyClause == [err |-> NoError, fields |-> <<>>, values |-> <<>>]

\* a clause that restricts on null whatever acceptNull says
WhereEqualAcceptingNull(w, field, value, acceptNull) ==
  [w EXCEPT !.fields = Append(@, field), !.values = Append(@, value)]

\* WhereBuilder.equal(field, value, {acceptNull}); a clause that has thrown
\* stays as it was when it threw
WhereEqual(w, field, value, acceptNull) ==
  IF w.err.kind # "" THEN w
  ELSE IF ~acceptNull /\ value = Null
       THEN [w EXCEPT !.err = Err("NullNotAccepted", field, 0)]
       ELSE [w EXCEPT !.fields = Append(@, field), !.values = Append(@, value)]

\* AttributionBuilder.set(field, value)
AttribSet(a, field, value) ==
  [a EXCEPT !.fields = Append(@, field), !.values = Append(@, value)]

\* a WHERE clause that is never required
WhereRenderErrorOptional(w, required) == NoError

\* WhereBuilder.render: the error of a required clause without restrictions
WhereRenderError(w, required) ==
  IF w.fields = <<>> /\ required THEN Err("NoWhereRestrictions", "", 0) ELSE NoError

\* AttributionBuilder.render: the error of a SET clause without attribution
AttribRenderError(a) ==
  IF a.fields = <<>> THEN Err("NoAttributionsSet", "", 0) ELSE NoError

\* a statement as handed to the adapter
Stmt(kind, table, a, w, limit) ==
  [kind |-> kind, table |-> table, setF |-> a.fields, setV |-> a.values,
   whereF |-> w.fields, whereV |-> w.values, limit |-> limit]

NoStmt == Stmt("", "", EmptyClause, EmptyClause, Undef)

\* Select.render: SELECT *, FROM, WHERE (not required), LIMIT
SelectRender(table, w, limit) ==
  [err |-> WhereRenderError(w, FALSE),
   stmt |-> Stmt("select", table, EmptyClause, w, limit)]

\* Update.render: mergeRenderers renders UPDATE, then SET, then WHERE, and
\* the first clause that throws decides the error
UpdateRender(table, a, w) ==
  [err |-> IF AttribRenderError(a).kind # "" THEN AttribRenderError(a)
           ELSE WhereRenderError(w, TRUE),
   stmt |-> Stmt("update", table, a, w, Undef)]

\* Insert.render: the error of an Insert without a field, or INSERT INTO
\* with the fields and values in the order of the set calls
InsertRender(table, a) ==
  [err |-> IF a.fields = <<>> THEN Err("NoFieldsSet", "", 0) ELSE NoError,
   stmt |-> Stmt("insert", table, a, EmptyClause, Undef)]

\* a Delete that renders without restrictions too
DeleteRenderUnrestricted(table, w) ==
  [err |-> NoError, stmt |-> Stmt("delete", table, EmptyClause, w, Undef)]

\* Delete.render: DELETE FROM, then WHERE (required)
DeleteRender(table, w) ==
  [err |-> WhereRenderError(w, TRUE),
   stmt |-> Stmt("delete", table, EmptyClause, w, Undef)]

\* the text of a clause is kept as its sequence of words; a partial SQL is
\* the text and the parameters of one clause
EmptySQL == [sql |-> <<>>, params |-> <<>>]

\* new StaticSQL(sql, params).render()
StaticSQL(sql, params) == [sql |-> sql, params |-> params]

RECURSIVE Restrictions(_, _)
\* fields.map(f => '`f` = ?').join(sep)
Restrictions(fields, sep) ==
  IF fields = <<>> THEN <<>>
  ELSE IF Len(fields) = 1 THEN <<fields[1], "=", "?">>
       ELSE <<fields[1], "=", "?", sep>> \o Restrictions(Tail(fields), sep)

\* WhereBuilder.render (the clause rendered without error)
WherePartial(w) ==
  IF w.fields = <<>> THEN EmptySQL
  ELSE [sql |-> <<"WHERE">> \o Restrictions(w.fields, "AND"), params |-> w.values]

\* AttributionBuilder.render (the clause rendered without error)
AttribPartial(a) ==
  [sql |-> <<"SET">> \o Restrictions(a.fields, ","), params |-> a.values]

\* the partial SQLs merged with the parameters of the last clause first
mergeRenderersLastFirst(partials) ==
  LET RECURSIVE flat(_)
      flat(ps) == IF ps = <<>> THEN <<>> ELSE flat(Tail(ps)) \o Head(ps).params
  IN [sql |-> SelectSeq([i \in DOMAIN partials |-> partials[i].sql],
                        LAMBDA x : Len(x) # 0),
      params |-> flat(partials)]

\* mergeRenderers: the texts that are not empty, one per line, and the
\* parameters of all the clauses, clause after clause
mergeRenderers(partials) ==
  LET RECURSIVE flat(_)
      flat(ps) == IF ps = <<>> THEN <<>> ELSE Head(ps).params \o flat(Tail(ps))
  IN [sql |-> SelectSeq([i \in DOMAIN partials |-> partials[i].sql],
                        LAMBDA x : Len(x) # 0),
      params |-> flat(partials)]

\* the check at the head of each render: the error of a builder whose
\* from(), into() or table() was never called ("" is the table not set)
TableRenderError(kind, table) ==
  IF table # "" THEN NoError
  ELSE Err(CASE kind = "select" -> "FromNotSet"
             [] kind = "insert" -> "IntoNotSet"
             [] OTHER -> "TableNotSet", "", 0)

\* render of Select, Insert, Update and Delete: the error thrown, or the
\* text and the parameters
Render(b) ==
  LET limit == IF b.limit = Undef THEN EmptySQL ELSE StaticSQL(<<"LIMIT", "?">>, <<b.limit>>)
      err == IF TableRenderError(b.kind, b.table).kind # ""
             THEN TableRenderError(b.kind, b.table)
             ELSE CASE b.kind = "select" -> SelectRender(b.table, b.where, b.limit).err
                    [] b.kind = "insert" -> InsertRender(b.table, b.attrib).err
                    [] b.kind = "update" -> UpdateRender(b.table, b.attrib, b.where).err
                    [] b.kind = "delete" -> DeleteRender(b.table, b.where).err
      out == CASE b.kind = "select" ->
                    mergeRenderers(<< StaticSQL(<<"SELECT", "*">>, <<>>),
                                      StaticSQL(<<"FROM", b.table>>, <<>>),
                                      WherePartial(b.where), limit >>)
               [] b.kind = "insert" ->
                    [sql |-> << <<"INSERT", "INTO", b.table>>,
                                b.attrib.fields,
                                <<"VALUES">> \o [i \in DOMAIN b.attrib.fields |-> "?"] >>,
                     params |-> b.attrib.values]
               [] b.kind = "update" ->
                    mergeRenderers(<< StaticSQL(<<"UPDATE", b.table>>, <<>>),
                                      AttribPartial(b.attrib), WherePartial(b.where) >>)
               [] b.kind = "delete" ->
                    mergeRenderers(<< StaticSQL(<<"DELETE", "FROM", b.table>>, <<>>),
                                      WherePartial(b.where) >>)
  IN IF err.kind # "" THEN [done |-> TRUE, err |-> err, sql |-> <<>>, params |-> <<>>]
     ELSE [done |-> TRUE, err |-> NoError, sql |-> out.sql, params |-> out.params]

\* a builder of a kind with its table set and nothing else; log keeps the
\* calls its user has made, in order
NewBuilder(kind) ==
  [kind |-> kind, table |-> "user", attrib |-> EmptyClause, where |-> EmptyClause,
   limit |-> Undef, log |-> <<>>,
   out |-> [done |-> FALSE, err |-> NoError, sql |-> <<>>, params |-> <<>>]]

NoBuilder == NewBuilder("")

(***************************************************************************)
(* Entity metadata: inference from a table and the metadata store rows.    *)
(***************************************************************************)
\* toCapitalizedSpaced on the identifiers of the domain stores considered
toCapitalizedSpaced(s) ==
  CASE s = "user" -> "User"
    [] s = "grant" -> "Grant"
    [] s = "blob" -> "Blob"
    [] s = "item" -> "Item"
    [] s = "note" -> "Note"
    [] s = "title" -> "Title"
    [] s = "body" -> "Body"
    [] s = "sqlite_sequence" -> "Sqlite Sequence"
    [] s = "id" -> "Id"
    [] s = "first_name" -> "First Name"
    [] s = "middle_name" -> "Middle Name"
    [] s = "user_id" -> "User Id"
    [] s = "feature_id" -> "Feature Id"
    [] s = "level" -> "Level"
    [] s = "data" -> "Data"
    [] s = "name" -> "Name"
    [] s = "seq" -> "Seq"
    [] OTHER -> s

\* a conversion that takes every type it does not know for a string
sqliteTypeToFieldTypeLenient(sqliteType) ==
  IF sqliteType = "INTEGER" THEN "number" ELSE "string"

\* SQLITE_TYPES_TO_FIELDTYPES.get: "" stands for no mapping (the throw)
sqliteTypeToFieldType(sqliteType) ==
  CASE sqliteType = "INTEGER" -> "number"
    [] sqliteType = "TEXT" -> "string"
    [] OTHER -> ""

JsBool(b) == IF b THEN JsTrue ELSE JsFalse

\* the FieldMeta built for one PRAGMA_TABLE_INFO row; fieldExamples is the
\* result of `SELECT * ... LIMIT 1` (no row or one row)
InferField(f, fieldExamples) ==
  LET isID == (f.pk = 1)
  IN [id |-> 0,
      name |-> toCapitalizedSpaced(f.name),
      code |-> f.name,
      column |-> f.name,
      placeholder |->
        IF isID THEN Null
        ELSE IF fieldExamples # <<>> /\ Truthy(fieldExamples[1][f.name])
             THEN fieldExamples[1][f.name] ELSE Null,
      type |-> sqliteTypeToFieldType(f.type),
      identifier |-> JsBool(isID),
      hidden |-> JsBool(isID),
      mandatory |-> JsBool(f.notnull = 1),
      generated |-> JsFalse]

IdentifierFields(fields) == SelectSeq(fields, LAMBDA f : Truthy(f.identifier))

\* ids.length === 1 && ids[0].type === NUMBER: that field becomes generated
MarkGenerated(fields) ==
  LET ids == IdentifierFields(fields)
  IN IF Len(ids) = 1 /\ ids[1].type = "number"
     THEN [i \in DOMAIN fields |->
             IF Truthy(fields[i].identifier)
             THEN [fields[i] EXCEPT !.generated = JsTrue] ELSE fields[i]]
     ELSE fields

\* formatFirstNFields: the codes of the first n fields that are not hidden
formatFirstNFields(fields, n) ==
  LET shown == SelectSeq(fields, LAMBDA x : ~Truthy(x.hidden))
  IN [i \in 1..(IF Len(shown) < n THEN Len(shown) ELSE n) |-> shown[i].code]

\* the first column whose native type has no mapping, or "" when all map
UnsupportedColumn(info) ==
  IF \E i \in DOMAIN info : sqliteTypeToFieldType(info[i].type) = ""
  THEN info[CHOOSE i \in DOMAIN info :
              /\ sqliteTypeToFieldType(info[i].type) = ""
              /\ \A j \in 1..(i - 1) : sqliteTypeToFieldType(info[j].type) # ""].type
  ELSE "ok"

\* the EntityMeta introspect infers for a table, before it is persisted
InferEntity(table, info, fieldExamples) ==
  LET fields == MarkGenerated([i \in DOMAIN info |-> InferField(info[i], fieldExamples)])
  IN [id |-> 0,
      name |-> toCapitalizedSpaced(table),
      code |-> table,
      table |-> table,
      titleFormat |-> [title |-> formatFirstNFields(fields, 2),
                       subtitle |-> formatFirstNFields(fields, 3)],
      fields |-> fields]

\* the column affinity of the TEXT columns of the metadata store: a number
\* is stored as its text (100 + n stands for the text of the number n)
TextAffinity(v) == IF v \in 0..9 THEN 100 + v ELSE v

\* the row `INSERT INTO entityType` adds (id from AUTOINCREMENT)
EntityRow(et, id) ==
  [id |-> id, name |-> et.name, code |-> et.code, table |-> et.table,
   titleFormatTitle |-> et.titleFormat.title,
   titleFormatSubtitle |-> et.titleFormat.subtitle]

\* the row `INSERT INTO fieldType` adds
FieldRow(f, entityTypeId, id) ==
  [id |-> id, entityTypeId |-> entityTypeId, name |-> f.name, code |-> f.code,
   column |-> f.column, placeholder |-> TextAffinity(Bind(f.placeholder)),
   type |-> f.type, identifier |-> Bind(f.identifier), hidden |-> Bind(f.hidden),
   mandatory |-> Bind(f.mandatory), generated |-> Bind(f.generated)]

\* mappedEntityTypes, first query: one EntityMeta per entityType row
MappedEntities(entityRows) ==
  [i \in DOMAIN entityRows |->
     [id |-> entityRows[i].id, name |-> entityRows[i].name,
      code |-> entityRows[i].code, table |-> entityRows[i].table,
      titleFormat |-> [title |-> entityRows[i].titleFormatTitle,
                       subtitle |-> entityRows[i].titleFormatSubtitle],
      fields |-> <<>>]]

\* mappedEntityTypes, the FieldMeta pushed for one fieldType row
MappedField(f) ==
  [id |-> f.id, name |-> f.name, code |-> f.code, column |-> f.column,
   placeholder |-> f.placeholder, type |-> f.type, identifier |-> f.identifier,
   hidden |-> f.hidden, mandatory |-> f.mandatory, generated |-> JsFalse]

\* mappedEntityTypes, second step: the fields of every entity, in row order
MappedFields(ets, fieldRows) ==
  [i \in DOMAIN ets |->
     [ets[i] EXCEPT !.fields =
        LET mine == SelectSeq(fieldRows, LAMBDA f : SqlEqual(f.entityTypeId, ets[i].id))
        IN [k \in DOMAIN mine |-> MappedField(mine[k])]]]

SystemTables == {"sqlite_sequence"}

\* unmappedTables: the listed tables that are no mapped entity's code and
\* no system table, in listing order
UnmappedTables(allTables, entityTypes) ==
  LET mappedTables == {entityTypes[i].code : i \in DOMAIN entityTypes}
  IN SelectSeq(SelectSeq(allTables, LAMBDA x : x \notin mappedTables),
               LAMBDA x : x \notin SystemTables)

(***************************************************************************)
(* The engine's operations on one EntityMeta, up to the statement they     *)
(* hand to the adapter.                                                    *)
(***************************************************************************)
\* entityType(code): the first entity type with that code, as a sequence
\* of no or one element
EntityTypeOf(entityTypes, code) ==
  LET found == SelectSeq(entityTypes, LAMBDA et : et.code = code)
  IN IF found = <<>> THEN <<>> ELSE <<found[1]>>

\* a restriction per identifier field, whatever ids holds for it
ReadWhereUnchecked(w, idFields, ids) ==
  [w EXCEPT !.fields = @ \o [i \in DOMAIN idFields |-> idFields[i].column],
            !.values = @ \o [i \in DOMAIN idFields |-> Get(ids, idFields[i].code)]]

RECURSIVE ReadWhere(_, _, _)
\* read: `for (const f of identifier fields)`: the check of ids[f.code] and
\* select.where.equal(f.column, ids[f.code])
ReadWhere(w, idFields, ids) ==
  IF idFields = <<>> \/ w.err.kind # "" THEN w
  ELSE LET f == Head(idFields)
       IN IF Get(ids, f.code) = Undef
          THEN [w EXCEPT !.err = Err("MissingIdentifierField", f.code, 0)]
          ELSE ReadWhere(WhereEqual(w, f.column, Get(ids, f.code), FALSE),
                         Tail(idFields), ids)

\* read: `if (limit) select.limit(limit)`
ReadLimit(limit) == IF Truthy(limit) THEN limit ELSE Undef

\* read, up to select.query: the error thrown or the statement rendered
ReadPlan(et, withIds, ids, limit) ==
  LET w == IF withIds THEN ReadWhere(EmptyClause, IdentifierFields(et.fields), ids)
           ELSE EmptyClause
  IN IF w.err.kind # "" THEN [err |-> w.err, stmt |-> NoStmt]
     ELSE SelectRender(et.table, w, ReadLimit(limit))

\* the raw rows as the store returns them, keyed by column
ReadShapeRaw(et, raw) == raw

\* read: each raw row keyed by field code instead of column (a later field
\* of the same code overwrites an earlier one)
ReadShape(et, raw) ==
  [i \in DOMAIN raw |->
     [c \in {et.fields[k].code : k \in DOMAIN et.fields} |->
        LET k == CHOOSE k \in DOMAIN et.fields :
                   /\ et.fields[k].code = c
                   /\ \A j \in DOMAIN et.fields : et.fields[j].code = c => j <= k
        IN Get(raw[i], et.fields[k].column)]]

\* the keys the objects handed to the engine may hold, in the order in
\* which they were set (Object.keys keeps that order)
KeyOrder ==
  << "id", "first_name", "primeiro_nome", "middle_name", "name", "nickname", "age",
     "user_id", "feature_id", "level" >>

\* Object.keys(obj)
Keys(obj) == SelectSeq(KeyOrder, LAMBDA k : k \in DOMAIN obj)

RECURSIVE Join(_)
\* names.map(quoted).join(', '), with ' for the quote the message uses
Join(names) ==
  IF names = <<>> THEN ""
  ELSE IF Len(names) = 1 THEN "'" \o names[1] \o "'"
       ELSE "'" \o names[1] \o "', " \o Join(Tail(names))

\* the first only of the keys of data that are no field code of the entity
UnknownKeysFirst(et, data) ==
  LET unknown == SelectSeq(Keys(data),
                   LAMBDA k : \A i \in DOMAIN et.fields : et.fields[i].code # k)
  IN IF unknown = <<>> THEN <<>> ELSE <<unknown[1]>>

\* create: the keys of data that are no field code of the entity
UnknownKeys(et, data) ==
  SelectSeq(Keys(data), LAMBDA k : \A i \in DOMAIN et.fields : et.fields[i].code # k)

\* the mandatory fields data holds no value for, the last field first
MissingMandatoryReversed(et, data) ==
  LET missing == SelectSeq(et.fields,
                   LAMBDA f : Truthy(f.mandatory) /\ Get(data, f.code) \in {Undef, Null})
  IN [i \in DOMAIN missing |-> missing[Len(missing) + 1 - i]]

\* create: the mandatory fields for which data holds neither undefined nor
\* null are the ones accepted; the others, in field order
MissingMandatory(et, data) ==
  SelectSeq(et.fields,
            LAMBDA f : Truthy(f.mandatory) /\ Get(data, f.code) \in {Undef, Null})

\* create, up to insert.execute: the error thrown or the statement rendered
\* (every field is set, in field order, to data[field.code])
CreatePlan(et, data) ==
  IF UnknownKeys(et, data) # <<>>
  THEN [err |-> Err("UnknownFields", Join(UnknownKeys(et, data)), 0), stmt |-> NoStmt]
  ELSE IF MissingMandatory(et, data) # <<>>
  THEN [err |-> Err("MissingMandatoryField", MissingMandatory(et, data)[1].code, 0),
        stmt |-> NoStmt]
  ELSE InsertRender(et.table,
         [EmptyClause EXCEPT
            !.fields = [i \in DOMAIN et.fields |-> et.fields[i].column],
            !.values = [i \in DOMAIN et.fields |-> Get(data, et.fields[i].code)]])

\* create: the first field marked generated, as a sequence of no or one
GeneratedField(et) ==
  LET gen == SelectSeq(et.fields, LAMBDA f : Truthy(f.generated))
  IN IF gen = <<>> THEN <<>> ELSE <<gen[1]>>

\* the data as it was handed in
CreateResultAsGiven(et, data, lastID) == data

\* create: `if (lastID && generatedField) data = {...data, [code]: lastID}`
CreateResult(et, data, lastID) ==
  IF Truthy(lastID) /\ GeneratedField(et) # <<>>
  THEN [k \in DOMAIN data \cup {GeneratedField(et)[1].code} |->
          IF k = GeneratedField(et)[1].code THEN lastID ELSE data[k]]
  ELSE data

RECURSIVE IdWhere(_, _, _)
\* update and delete: `for (const id of identifier fields)
\*   where.equal(id.column, data[id.code], { acceptNull: false })`
IdWhere(w, idFields, data) ==
  IF idFields = <<>> \/ w.err.kind # "" THEN w
  ELSE IdWhere(WhereEqual(w, Head(idFields).column, Get(data, Head(idFields).code), FALSE),
               Tail(idFields), data)

\* the fields that are no identifier and whose data is neither undefined
\* nor null
FieldsToUpdateDefined(et, data) ==
  SelectSeq(et.fields,
            LAMBDA f : ~Truthy(f.identifier) /\ Get(data, f.code) \notin {Undef, Null})

\* update: the fields that are no identifier and whose data is not undefined
FieldsToUpdate(et, data) ==
  SelectSeq(SelectSeq(et.fields, LAMBDA ft : ~Truthy(ft.identifier)),
            LAMBDA f : Get(data, f.code) # Undef)

\* update: `for (const f of fieldsToUpdate) update.attrib.set(...)`
UpdateAttrib(et, data) ==
  LET fs == FieldsToUpdate(et, data)
  IN [EmptyClause EXCEPT !.fields = [i \in DOMAIN fs |-> fs[i].column],
                         !.values = [i \in DOMAIN fs |-> Get(data, fs[i].code)]]

\* update, up to update.execute: the error thrown or the statement rendered
UpdatePlan(et, data) ==
  LET w == IdWhere(EmptyClause, IdentifierFields(et.fields), data)
  IN IF w.err.kind # "" THEN [err |-> w.err, stmt |-> NoStmt]
     ELSE UpdateRender(et.table, UpdateAttrib(et, data), w)

\* a delete restricted on every field ids holds a value for
DeletePlanAllKeys(et, ids) ==
  LET given == SelectSeq(et.fields, LAMBDA f : Get(ids, f.code) # Undef)
      w == [EmptyClause EXCEPT
              !.fields = [i \in DOMAIN given |-> given[i].column],
              !.values = [i \in DOMAIN given |-> Get(ids, given[i].code)]]
  IN DeleteRender(et.table, w)

\* delete, up to del.execute
DeletePlan(et, ids) ==
  LET w == IdWhere(EmptyClause, IdentifierFields(et.fields), ids)
  IN IF w.err.kind # "" THEN [err |-> w.err, stmt |-> NoStmt]
     ELSE DeleteRender(et.table, w)

\* a statement that changed at least one row taken as done
ChangesAcceptedSome(changes) == changes >= 1

\* `result.changes !== 1` of update and delete
ChangesAccepted(changes) == changes = 1

\* `entities.length !== 1` of update's verifying read
ReadCountAccepted(n) == n = 1

(***************************************************************************)
(* State.                                                                  *)
(***************************************************************************)
VARIABLES
  tables,    \* the domain store's table listing (listAllTables)
  domainDB,  \* the domain store: table -> rows
  metaDB,    \* the metadata store: the entityType and fieldType rows
  cache,     \* DataDomain._entityTypes: 0 (undefined) or the load it holds
  loads,     \* the loads started by this engine: each the async body of
             \* entityTypes() with its promise
  callers,   \* the calls in flight, one per caller
  calls,     \* how many calls were made so far
  builder    \* a statement builder of db/sql.ts in the hands of its user

vars == <<tables, domainDB, metaDB, cache, loads, callers, calls, builder>>

\* the arguments of one call of the engine's interface
In(op, code, withIds, data, limit) ==
  [op |-> op, code |-> code, withIds |-> withIds, data |-> data, limit |-> limit]

NoInput == In("", "", FALSE, EmptyObj, Undef)

\* what a caller keeps of its previous call: the arguments, the error and
\* the value returned
NoPrev == [in |-> NoInput, err |-> NoError, rows |-> <<>>]

IdleCaller ==
  [pc |-> "idle", in |-> NoInput, load |-> 0, err |-> NoError, rows |-> <<>>,
   types |-> <<>>, issued |-> <<>>, changes |-> 0, prev |-> NoPrev]

\* the async body of entityTypes(), started: it has issued the query of
\* mappedEntityTypes and awaits it
NewLoad ==
  [pc |-> "mapped", entityTypes |-> <<>>, unmapped |-> <<>>, tasks |-> <<>>,
   result |-> <<>>, err |-> NoError]

\* the callback of introspect for one table, started
NewTask(table) ==
  [table |-> table, pc |-> "sample", examples |-> <<>>,
   et |-> InferEntity(table, <<>>, <<>>), next |-> 1, err |-> NoError]

Init ==
  /\ tables \in DomainLayouts
  /\ domainDB = [t \in Range(tables) |-> InitialRows(t)]
  /\ metaDB = [entityType |-> <<>>, fieldType |-> <<>>]
  /\ cache = 0
  /\ loads = <<>>
  /\ callers = [c \in Callers |-> IdleCaller]
  /\ calls = 0
  /\ builder = NoBuilder

(***************************************************************************)
(* entityTypes(): the cache and the load.                                  *)
(***************************************************************************)
\* the cache trusted only once its load has resolved
CacheHitWhenResolved(cache_, loads_) ==
  cache_ # 0 /\ loads_[cache_].pc = "resolved"

\* no cache: every call loads again
CacheHitNever(cache_, loads_) == FALSE

\* `if (this._entityTypes) return this._entityTypes`
CacheHit(cache_, loads_) == cache_ # 0

\* a load that wakes its callers only when it resolves
SettledWhenResolved(l) == loads[l].pc = "resolved"

\* the promise of a load is settled: resolved or rejected
Settled(l) == loads[l].pc \in {"resolved", "rejected"}

\* a call of the interface: every operation starts with entityTypes(),
\* which returns the cached promise or starts the load and caches its
\* promise before anything is awaited (callers are interchangeable: the
\* idle caller of the lowest number makes the call)
Call(c, in) ==
  /\ callers[c].pc = "idle"
  /\ \A b \in 1..(c - 1) : callers[b].pc # "idle"
  /\ calls < MaxCalls
  /\ calls' = calls + 1
  /\ IF CacheHit(cache, loads)
     THEN /\ UNCHANGED <<cache, loads>>
     ELSE /\ loads' = Append(loads, NewLoad)
          /\ cache' = Len(loads) + 1
  /\ callers' = [callers EXCEPT ![c] =
                   [IdleCaller EXCEPT !.pc = "awaitTypes", !.in = in, !.load = cache',
                                      !.prev = callers[c].prev]]
  /\ UNCHANGED <<builder, tables, domainDB, metaDB>>

\* mappedEntityTypes: `SELECT * FROM entityType` answers
LoadEntityTypes(l) ==
  /\ loads[l].pc = "mapped"
  /\ loads' = [loads EXCEPT ![l].pc = "fields",
                            ![l].entityTypes = MappedEntities(metaDB.entityType)]
  /\ UNCHANGED <<builder, tables, domainDB, metaDB, cache, callers, calls>>

\* mappedEntityTypes: the fieldType queries of all entity types answer
LoadFields(l) ==
  /\ loads[l].pc = "fields"
  /\ loads' = [loads EXCEPT ![l].pc = "tables",
                            ![l].entityTypes = MappedFields(@, metaDB.fieldType)]
  /\ UNCHANGED <<builder, tables, domainDB, metaDB, cache, callers, calls>>

\* unmappedTables: listAllTables answers; with nothing left to inspect the
\* load resolves, otherwise introspect starts one callback per table
LoadTables(l) ==
  /\ loads[l].pc = "tables"
  /\ LET unmapped == UnmappedTables(tables, loads[l].entityTypes)
     IN loads' = [loads EXCEPT ![l] =
          IF unmapped = <<>>
          THEN [@ EXCEPT !.pc = "resolved", !.result = loads[l].entityTypes]
          ELSE [@ EXCEPT !.pc = "introspect", !.unmapped = unmapped,
                         !.tasks = [i \in DOMAIN unmapped |-> NewTask(unmapped[i])]]]
  /\ UNCHANGED <<builder, tables, domainDB, metaDB, cache, callers, calls>>

\* a callback of introspect fails: Promise.all rejects with the first
\* failure while the other callbacks keep running
TaskFails(l, i, err) ==
  [loads EXCEPT ![l].tasks[i].pc = "failed", ![l].tasks[i].err = err,
                ![l].pc = IF @ = "introspect" THEN "rejected" ELSE @,
                ![l].err = IF loads[l].pc = "introspect" THEN err ELSE @]

\* introspect: `SELECT * FROM table LIMIT 1` answers
TaskSample(l, i) ==
  /\ loads[l].tasks[i].pc = "sample"
  /\ LET t == loads[l].tasks[i].table
         select == SelectRender(t, EmptyClause, 1).stmt
     IN loads' = [loads EXCEPT ![l].tasks[i].pc = "pragma",
                               ![l].tasks[i].examples = DbAll(domainDB[t], select)]
  /\ UNCHANGED <<builder, tables, domainDB, metaDB, cache, callers, calls>>

\* introspect: PRAGMA_TABLE_INFO answers; the fields, generated and
\* titleFormat are inferred and the entityType insert is issued
TaskPragma(l, i) ==
  /\ loads[l].tasks[i].pc = "pragma"
  /\ LET t == loads[l].tasks[i].table
         info == TableInfo(t)
     IN loads' =
          IF UnsupportedColumn(info) # "ok"
          THEN TaskFails(l, i, Err("UnsupportedColumnType", UnsupportedColumn(info), 0))
          ELSE [loads EXCEPT ![l].tasks[i].pc = "entity",
                             ![l].tasks[i].et =
                                InferEntity(t, info, loads[l].tasks[i].examples)]
  /\ UNCHANGED <<builder, tables, domainDB, metaDB, cache, callers, calls>>

\* introspect: `INSERT INTO entityType` runs (code is UNIQUE)
TaskSaveEntity(l, i) ==
  /\ loads[l].tasks[i].pc = "entity"
  /\ LET et == loads[l].tasks[i].et
         id == Len(metaDB.entityType) + 1
     IN IF \E k \in DOMAIN metaDB.entityType : metaDB.entityType[k].code = et.code
        THEN /\ loads' = TaskFails(l, i, Err("StoreError", et.code, 0))
             /\ UNCHANGED metaDB
        ELSE /\ metaDB' = [metaDB EXCEPT !.entityType = Append(@, EntityRow(et, id))]
             /\ loads' = [loads EXCEPT ![l].tasks[i].pc = "field",
                                       ![l].tasks[i].et.id = id]
  /\ UNCHANGED <<builder, tables, domainDB, cache, callers, calls>>

\* introspect: the next `INSERT INTO fieldType` runs; after the last one
\* the callback returns its EntityMeta
TaskSaveField(l, i) ==
  /\ loads[l].tasks[i].pc = "field"
  /\ LET task == loads[l].tasks[i]
         k == task.next
         id == Len(metaDB.fieldType) + 1
     IN /\ metaDB' = [metaDB EXCEPT !.fieldType =
                        Append(@, FieldRow(task.et.fields[k], task.et.id, id))]
        /\ loads' = [loads EXCEPT ![l].tasks[i].et.fields[k].id = id,
                                  ![l].tasks[i].next = k + 1,
                                  ![l].tasks[i].pc =
                                     IF k = Len(task.et.fields) THEN "done" ELSE @]
  /\ UNCHANGED <<builder, tables, domainDB, cache, callers, calls>>

\* introspect: the adapter fails the next `INSERT INTO fieldType` (the
\* metadata store is busy or full); the rows inserted before it stay
TaskSaveFieldFails(l, i) ==
  /\ loads[l].tasks[i].pc = "field"
  /\ loads' = TaskFails(l, i, Err("StoreError", "fieldType", 0))
  /\ UNCHANGED <<builder, tables, domainDB, metaDB, cache, callers, calls>>

\* the callbacks' results in the order in which the callbacks finished (the
\* id of the last fieldType row a callback inserted tells when it finished)
IntrospectResultsAsCompleted(tasks) ==
  LET last(i) == tasks[i].et.fields[Len(tasks[i].et.fields)].id
      order == CHOOSE f \in [DOMAIN tasks -> DOMAIN tasks] :
                 /\ \A i, j \in DOMAIN tasks : i # j => f[i] # f[j]
                 /\ \A i, j \in DOMAIN tasks : i < j => last(f[i]) < last(f[j])
  IN [i \in DOMAIN tasks |-> tasks[order[i]].et]

\* `Promise.all(tables.map(async table => ...))`: the callbacks' results in
\* the order of the tables
IntrospectResults(tasks) == [i \in DOMAIN tasks |-> tasks[i].et]

\* Promise.all resolves, and the load with the mapped entity types followed
\* by the introspected ones
LoadResolve(l) ==
  /\ loads[l].pc = "introspect"
  /\ \A i \in DOMAIN loads[l].tasks : loads[l].tasks[i].pc = "done"
  /\ loads' = [loads EXCEPT ![l].pc = "resolved",
                            ![l].result = loads[l].entityTypes \o
                                            IntrospectResults(loads[l].tasks)]
  /\ UNCHANGED <<builder, tables, domainDB, metaDB, cache, callers, calls>>

(***************************************************************************)
(* The operations, from the point where entityTypes() has answered.        *)
(***************************************************************************)
Finish(c, err, rows) ==
  [callers EXCEPT ![c].pc = "done", ![c].err = err, ![c].rows = rows]

\* the call goes on once the promise of entityTypes() is settled: up to and
\* including the statement it runs on the domain store
Resume(c) ==
  /\ callers[c].pc = "awaitTypes"
  /\ Settled(callers[c].load)
  /\ LET load == loads[callers[c].load]
         in == callers[c].in
         found == EntityTypeOf(load.result, in.code)
         et == found[1]
         plan == CASE in.op = "create" -> CreatePlan(et, in.data)
                   [] in.op = "read" -> ReadPlan(et, in.withIds, in.data, in.limit)
                   [] in.op = "update" -> UpdatePlan(et, in.data)
                   [] in.op = "delete" -> DeletePlan(et, in.data)
         ran == DbRun(et.table, domainDB[et.table], plan.stmt)
         ins == DbInsert(et.table, domainDB[et.table], domainDB["sqlite_sequence"],
                         plan.stmt)
         issued == [callers EXCEPT ![c].issued = Append(@, plan.stmt)]
     IN IF load.pc = "rejected"
        THEN /\ callers' = Finish(c, load.err, <<>>)
             /\ UNCHANGED domainDB
        ELSE IF in.op = "entityTypes"
        THEN /\ callers' = [Finish(c, NoError, <<>>) EXCEPT ![c].types = load.result]
             /\ UNCHANGED domainDB
        ELSE IF found = <<>>
        THEN /\ callers' = Finish(c, Err("EntityTypeNotFound", in.code, 0), <<>>)
             /\ UNCHANGED domainDB
        ELSE IF plan.err.kind # ""
        THEN /\ callers' = Finish(c, plan.err, <<>>)
             /\ UNCHANGED domainDB
        ELSE IF in.op = "read"
        THEN /\ callers' = [issued EXCEPT
                  ![c].pc = "done",
                  ![c].rows = ReadShape(et, DbAll(domainDB[et.table], plan.stmt))]
             /\ UNCHANGED domainDB
        ELSE IF in.op = "create"
        THEN /\ domainDB' = [domainDB EXCEPT ![et.table] = ins.rows,
                                              !["sqlite_sequence"] = ins.sequence]
             /\ callers' = [issued EXCEPT
                  ![c].pc = "done",
                  ![c].err = IF ins.failed THEN Err("StoreError", et.table, 0)
                             ELSE NoError,
                  ![c].rows = IF ins.failed THEN <<>>
                              ELSE <<CreateResult(et, in.data, ins.lastID)>>]
        ELSE /\ domainDB' = [domainDB EXCEPT ![et.table] = ran.rows]
             /\ callers' = [issued EXCEPT
                  ![c].changes = ran.changes,
                  ![c].pc = IF ~ran.failed /\ ChangesAccepted(ran.changes)
                               /\ in.op = "update"
                            THEN "verify" ELSE "done",
                  ![c].err =
                     IF ran.failed THEN Err("StoreError", et.table, 0)
                     ELSE IF ~ChangesAccepted(ran.changes)
                          THEN Err("UnexpectedAffectedRowCount", in.op, ran.changes)
                          ELSE NoError]
  /\ UNCHANGED <<builder, tables, metaDB, cache, loads, calls>>

\* update: `this.read(entityTypeCode, { ids: data })` and the check of the
\* number of entities it returns
Verify(c) ==
  /\ callers[c].pc = "verify"
  /\ LET in == callers[c].in
         found == EntityTypeOf(loads[cache].result, in.code)
         et == found[1]
         plan == ReadPlan(et, TRUE, in.data, Undef)
         rows == ReadShape(et, DbAll(domainDB[et.table], plan.stmt))
     IN callers' =
          IF plan.err.kind # "" THEN Finish(c, plan.err, <<>>)
          ELSE [callers EXCEPT
                  ![c].issued = Append(@, plan.stmt),
                  ![c].pc = "done",
                  ![c].err = IF ReadCountAccepted(Len(rows)) THEN NoError
                             ELSE Err("UnexpectedReadCount", "", Len(rows)),
                  ![c].rows = IF ReadCountAccepted(Len(rows)) THEN <<rows[1]>> ELSE <<>>]
  /\ UNCHANGED <<builder, tables, domainDB, metaDB, cache, loads, calls>>

\* the caller takes the result or the error
Return(c) ==
  /\ callers[c].pc = "done"
  /\ callers' = [callers EXCEPT ![c] = IdleCaller]
  /\ UNCHANGED <<builder, tables, domainDB, metaDB, cache, loads, calls>>

\* the caller takes the result or the error and keeps it for its next call
ReturnKeep(c) ==
  /\ callers[c].pc = "done"
  /\ callers' = [callers EXCEPT ![c] =
       [IdleCaller EXCEPT !.prev = [in |-> callers[c].in, err |-> callers[c].err,
                                    rows |-> callers[c].rows]]]
  /\ UNCHANGED <<builder, tables, domainDB, metaDB, cache, loads, calls>>

(***************************************************************************)
(* The environment: a later engine instance on the same stores, and edits  *)
(* of the codes in the metadata store.                                     *)
(***************************************************************************)
Quiescent ==
  /\ \A c \in Callers : callers[c].pc = "idle"
  /\ \A l \in DOMAIN loads :
       /\ Settled(l)
       /\ \A i \in DOMAIN loads[l].tasks : loads[l].tasks[i].pc \in {"done", "failed"}

\* new DataDomain(metaDB, domainDB) on the stores as they are
NewEngine ==
  /\ Quiescent
  /\ cache # 0
  /\ cache' = 0
  /\ loads' = <<>>
  /\ UNCHANGED <<builder, tables, domainDB, metaDB, callers, calls>>

\* the renamings of codes applied to the metadata store
Overrides ==
  { [table |-> "user", code |-> "usuario", column |-> "first_name",
     fieldCode |-> "primeiro_nome"],
    [table |-> "user", code |-> "user", column |-> "first_name",
     fieldCode |-> "primeiro_nome"] }

\* `UPDATE entityType SET code=? WHERE id=?` and `UPDATE fieldType SET code=?
\* WHERE entityTypeId = ? AND column = ?` for the one entity of the table
OverrideMeta(o) ==
  /\ Quiescent
  /\ cache # 0
  /\ loads[cache].pc = "resolved"
  /\ LET ids == {metaDB.entityType[k].id :
                   k \in {j \in DOMAIN metaDB.entityType :
                            metaDB.entityType[j].table = o.table}}
     IN /\ Cardinality(ids) = 1
        /\ \A k \in DOMAIN metaDB.entityType :
             metaDB.entityType[k].code = o.code => metaDB.entityType[k].id \in ids
        /\ metaDB' =
             [entityType |->
                [k \in DOMAIN metaDB.entityType |->
                   IF metaDB.entityType[k].id \in ids
                   THEN [metaDB.entityType[k] EXCEPT !.code = o.code]
                   ELSE metaDB.entityType[k]],
              fieldType |->
                [k \in DOMAIN metaDB.fieldType |->
                   IF /\ metaDB.fieldType[k].entityTypeId \in ids
                      /\ metaDB.fieldType[k].column = o.column
                   THEN [metaDB.fieldType[k] EXCEPT !.code = o.fieldCode]
                   ELSE metaDB.fieldType[k]]]
        /\ metaDB' # metaDB
  /\ UNCHANGED <<builder, tables, domainDB, cache, loads, callers, calls>>

(***************************************************************************)
(* The calls made.                                                         *)
(***************************************************************************)
\* the calls of concurrent callers
ConcurrentInputs ==
  { In("entityTypes", "", FALSE, EmptyObj, Undef),
    In("read", "user", FALSE, EmptyObj, Undef),
    In("update", "user", TRUE, [id |-> 1, first_name |-> StrB], Undef),
    In("delete", "user", TRUE, [id |-> 1], Undef) }

UserData ==
  { a @@ b @@ c :
      a \in {EmptyObj, [id |-> Null], [id |-> 1], [id |-> 3]},
      b \in {EmptyObj, [first_name |-> StrB], [first_name |-> Null],
             [primeiro_nome |-> StrB]},
      c \in {EmptyObj, [middle_name |-> Null], [middle_name |-> Undef]} }

GrantData ==
  { a @@ b @@ c :
      a \in {EmptyObj, [user_id |-> 1], [user_id |-> 2]},
      b \in {EmptyObj, [feature_id |-> 1]},
      c \in {EmptyObj, [level |-> StrB]} }

Limits == {Undef, 0, 1, 2, 3}

\* the calls of a single caller
CrudInputs ==
  {In(op, code, TRUE, d, Undef) :
     op \in {"read", "update", "delete"}, code \in {"user", "usuario"}, d \in UserData}
  \cup {In(op, "grant", TRUE, d, Undef) :
          op \in {"read", "update", "delete"}, d \in GrantData}
  \cup {In("read", code, FALSE, EmptyObj, n) :
          code \in {"user", "usuario", "grant"}, n \in Limits}
  \cup {In("read", "nope", FALSE, EmptyObj, Undef),
        In("entityTypes", "", FALSE, EmptyObj, Undef)}

(***************************************************************************)
(* Specifications.                                                         *)
(***************************************************************************)
\* concurrent callers on one engine at a time; the callbacks of introspect
\* run interleaved
Next ==
  \/ \E c \in Callers, in \in ConcurrentInputs : Call(c, in)
  \/ \E c \in Callers : Resume(c)
  \/ \E c \in Callers : Verify(c)
  \/ \E c \in Callers : Return(c)
  \/ \E l \in DOMAIN loads : LoadEntityTypes(l)
  \/ \E l \in DOMAIN loads : LoadFields(l)
  \/ \E l \in DOMAIN loads : LoadTables(l)
  \/ \E l \in DOMAIN loads : \E i \in DOMAIN loads[l].tasks : TaskSample(l, i)
  \/ \E l \in DOMAIN loads : \E i \in DOMAIN loads[l].tasks : TaskPragma(l, i)
  \/ \E l \in DOMAIN loads : \E i \in DOMAIN loads[l].tasks : TaskSaveEntity(l, i)
  \/ \E l \in DOMAIN loads : \E i \in DOMAIN loads[l].tasks : TaskSaveField(l, i)
  \/ \E l \in DOMAIN loads : LoadResolve(l)
  \/ NewEngine
  \/ \E o \in {x \in Overrides : x.code # x.table} : OverrideMeta(o)

Spec == Init /\ [][Next]_vars

\* the steps that need no caller to act: an answer of the adapter to a
\* statement of a load, and the settling of the promise of a load
LoadStep ==
  \/ \E l \in DOMAIN loads : LoadEntityTypes(l)
  \/ \E l \in DOMAIN loads : LoadFields(l)
  \/ \E l \in DOMAIN loads : LoadTables(l)
  \/ \E l \in DOMAIN loads : \E i \in DOMAIN loads[l].tasks : TaskSample(l, i)
  \/ \E l \in DOMAIN loads : \E i \in DOMAIN loads[l].tasks : TaskPragma(l, i)
  \/ \E l \in DOMAIN loads : \E i \in DOMAIN loads[l].tasks : TaskSaveEntity(l, i)
  \/ \E l \in DOMAIN loads : \E i \in DOMAIN loads[l].tasks : TaskSaveField(l, i)
  \/ \E l \in DOMAIN loads : LoadResolve(l)

\* the calls of the callers that wait for a load
LiveInputs ==
  { In("entityTypes", "", FALSE, EmptyObj, Undef),
    In("read", "user", FALSE, EmptyObj, Undef) }

\* concurrent callers on one engine at a time
NextLive ==
  \/ \E c \in Callers, in \in LiveInputs : Call(c, in)
  \/ \E c \in Callers : Resume(c)
  \/ \E c \in Callers : Return(c)
  \/ LoadStep
  \/ NewEngine

\* the concurrent callers under an adapter that answers every statement
\* and an event loop that runs every continuation of a settled promise
SpecLive ==
  /\ Init
  /\ [][NextLive]_vars
  /\ WF_vars(LoadStep)
  /\ \A c \in Callers : WF_vars(Resume(c))

\* the adapter answers the callbacks of introspect one table after the other
Serial(l, i) ==
  \A j \in 1..(i - 1) : loads[l].tasks[j].pc \in {"done", "failed"}

\* one caller making one call after the other, with the wider set of calls
NextCrud ==
  \/ \E in \in CrudInputs : Call(1, in)
  \/ Resume(1)
  \/ Verify(1)
  \/ Return(1)
  \/ \E l \in DOMAIN loads : LoadEntityTypes(l)
  \/ \E l \in DOMAIN loads : LoadFields(l)
  \/ \E l \in DOMAIN loads : LoadTables(l)
  \/ \E l \in DOMAIN loads : \E i \in DOMAIN loads[l].tasks :
       Serial(l, i) /\ TaskSample(l, i)
  \/ \E l \in DOMAIN loads : \E i \in DOMAIN loads[l].tasks :
       Serial(l, i) /\ TaskPragma(l, i)
  \/ \E l \in DOMAIN loads : \E i \in DOMAIN loads[l].tasks :
       Serial(l, i) /\ TaskSaveEntity(l, i)
  \/ \E l \in DOMAIN loads : \E i \in DOMAIN loads[l].tasks :
       Serial(l, i) /\ TaskSaveField(l, i)
  \/ \E l \in DOMAIN loads : LoadResolve(l)
  \/ NewEngine
  \/ \E o \in Overrides : OverrideMeta(o)

SpecCrud == Init /\ [][NextCrud]_vars

\* the domain store of the sequences of calls: a table whose generated
\* identifier is declared NOT NULL besides the others
SeqLayouts == { <<"user", "sqlite_sequence", "grant", "item">> }

InitSeq ==
  /\ tables \in SeqLayouts
  /\ domainDB = [t \in Range(tables) |-> InitialRows(t)]
  /\ metaDB = [entityType |-> <<>>, fieldType |-> <<>>]
  /\ cache = 0
  /\ loads = <<>>
  /\ callers = [c \in Callers |-> IdleCaller]
  /\ calls = 0
  /\ builder = NoBuilder

UserCreateData ==
  { a @@ b @@ c :
      a \in {EmptyObj, [id |-> 1], [id |-> 5], [id |-> Null]},
      b \in {EmptyObj, [first_name |-> StrA], [first_name |-> Null]},
      c \in {EmptyObj, [middle_name |-> StrB], [nickname |-> StrA],
             [nickname |-> StrA, age |-> 3]} }

ItemCreateData ==
  { a @@ b : a \in {EmptyObj, [id |-> 2]}, b \in {EmptyObj, [name |-> StrB]} }

\* the calls of a caller that makes one call after the other
SeqInputs ==
  {In("create", "user", FALSE, d, Undef) : d \in UserCreateData}
  \cup {In("create", "item", FALSE, d, Undef) : d \in ItemCreateData}
  \cup {In(op, "user", TRUE, d, Undef) :
          op \in {"read", "update", "delete"},
          d \in {[id |-> 1, first_name |-> StrB], [id |-> 2, middle_name |-> Null],
                 [id |-> 3, first_name |-> StrA]}}
  \cup {In(op, "grant", TRUE, d, Undef) :
          op \in {"read", "update", "delete"},
          d \in {[user_id |-> 1, level |-> StrB], [user_id |-> 2, level |-> StrB]}}
  \cup {In(op, "item", TRUE, [id |-> 1], Undef) : op \in {"read", "delete"}}

\* the read a caller makes with the object its create has returned
FollowUps(prev) ==
  IF prev.in.op = "create" /\ prev.err.kind = ""
  THEN {In("read", prev.in.code, TRUE, prev.rows[1], Undef)}
  ELSE {}

\* one caller making one call after the other and keeping what the call
\* before returned
NextSeq ==
  \/ \E in \in SeqInputs \cup FollowUps(callers[1].prev) : Call(1, in)
  \/ Resume(1)
  \/ Verify(1)
  \/ ReturnKeep(1)
  \/ \E l \in DOMAIN loads : LoadEntityTypes(l)
  \/ \E l \in DOMAIN loads : LoadFields(l)
  \/ \E l \in DOMAIN loads : LoadTables(l)
  \/ \E l \in DOMAIN loads : \E i \in DOMAIN loads[l].tasks :
       Serial(l, i) /\ TaskSample(l, i)
  \/ \E l \in DOMAIN loads : \E i \in DOMAIN loads[l].tasks :
       Serial(l, i) /\ TaskPragma(l, i)
  \/ \E l \in DOMAIN loads : \E i \in DOMAIN loads[l].tasks :
       Serial(l, i) /\ TaskSaveEntity(l, i)
  \/ \E l \in DOMAIN loads : \E i \in DOMAIN loads[l].tasks :
       Serial(l, i) /\ TaskSaveField(l, i)
  \/ \E l \in DOMAIN loads : LoadResolve(l)
  \/ NewEngine

SpecSeq == InitSeq /\ [][NextSeq]_vars

(***************************************************************************)
(* The statement builders in the hands of a user that calls their clauses  *)
(* in any order and then renders.                                          *)
(***************************************************************************)
BuilderOpen == builder.kind # "" /\ ~builder.out.done /\ Len(builder.log) < MaxBuilderCalls

\* a domain store with a table that has no primary key, on a metadata
\* store whose adapter may fail a statement
FaultLayouts == { <<"note", "sqlite_sequence", "user">> }

InitFault ==
  /\ tables \in FaultLayouts
  /\ domainDB = [t \in Range(tables) |-> InitialRows(t)]
  /\ metaDB = [entityType |-> <<>>, fieldType |-> <<>>]
  /\ cache = 0
  /\ loads = <<>>
  /\ callers = [c \in Callers |-> IdleCaller]
  /\ calls = 0
  /\ builder = NoBuilder

FaultInputs ==
  { In("entityTypes", "", FALSE, EmptyObj, Undef),
    In("update", "note", TRUE, [body |-> StrA], Undef),
    In("update", "note", TRUE, EmptyObj, Undef),
    In("delete", "note", TRUE, [title |-> StrA], Undef),
    In("update", "user", TRUE, [id |-> 1, first_name |-> StrB], Undef),
    In("delete", "user", TRUE, [id |-> 2], Undef) }

\* one caller, the callbacks of introspect answered one table after the
\* other, and a metadata store that may fail an insert of a field row
NextFault ==
  \/ \E in \in FaultInputs : Call(1, in)
  \/ Resume(1)
  \/ Verify(1)
  \/ Return(1)
  \/ \E l \in DOMAIN loads : LoadEntityTypes(l)
  \/ \E l \in DOMAIN loads : LoadFields(l)
  \/ \E l \in DOMAIN loads : LoadTables(l)
  \/ \E l \in DOMAIN loads : \E i \in DOMAIN loads[l].tasks :
       Serial(l, i) /\ TaskSample(l, i)
  \/ \E l \in DOMAIN loads : \E i \in DOMAIN loads[l].tasks :
       Serial(l, i) /\ TaskPragma(l, i)
  \/ \E l \in DOMAIN loads : \E i \in DOMAIN loads[l].tasks :
       Serial(l, i) /\ TaskSaveEntity(l, i)
  \/ \E l \in DOMAIN loads : \E i \in DOMAIN loads[l].tasks :
       Serial(l, i) /\ TaskSaveField(l, i)
  \/ \E l \in DOMAIN loads : \E i \in DOMAIN loads[l].tasks :
       Serial(l, i) /\ TaskSaveFieldFails(l, i)
  \/ \E l \in DOMAIN loads : LoadResolve(l)
  \/ NewEngine

SpecFault == InitFault /\ [][NextFault]_vars

\* new Select().from(t), new Insert().into(t), new Update().table(t) or
\* new Delete().table(t)
BuilderNew(kind) ==
  /\ builder = NoBuilder
  /\ builder' = NewBuilder(kind)
  /\ UNCHANGED <<tables, domainDB, metaDB, cache, loads, callers, calls>>

\* insert.set(field, value) or update.attrib.set(field, value)
BuilderSet(field, value) ==
  /\ BuilderOpen
  /\ builder.kind \in {"insert", "update"}
  /\ builder' = [builder EXCEPT
       !.attrib = AttribSet(@, field, value),
       !.log = Append(@, [clause |-> "set", field |-> field, value |-> value])]
  /\ UNCHANGED <<tables, domainDB, metaDB, cache, loads, callers, calls>>

\* new Select(), new Insert(), new Update() or new Delete()
BuilderBare(kind) ==
  /\ builder = NoBuilder
  /\ builder' = [NewBuilder(kind) EXCEPT !.table = ""]
  /\ UNCHANGED <<tables, domainDB, metaDB, cache, loads, callers, calls>>

\* from(t), into(t) or table(t) on a builder that has no table yet
BuilderTable(table) ==
  /\ builder.kind # ""
  /\ ~builder.out.done
  /\ builder.table = ""
  /\ builder' = [builder EXCEPT !.table = table]
  /\ UNCHANGED <<tables, domainDB, metaDB, cache, loads, callers, calls>>

\* where.equal(field, value, {acceptNull}) of a Select, Update or Delete:
\* a call that throws leaves the clause as it was, and the log keeps the
\* error it threw
BuilderEqual(field, value, acceptNull) ==
  /\ BuilderOpen
  /\ builder.kind \in {"select", "update", "delete"}
  /\ LET w == WhereEqual(builder.where, field, value, acceptNull)
     IN builder' = [builder EXCEPT
          !.where = IF w.err.kind # "" THEN @ ELSE w,
          !.log = Append(@, [clause |-> IF w.err.kind # "" THEN "threw" ELSE "where",
                             field |-> field, value |-> value,
                             acceptNull |-> acceptNull, err |-> w.err])]
  /\ UNCHANGED <<tables, domainDB, metaDB, cache, loads, callers, calls>>

\* select.limit(rows), once
BuilderLimit(rows) ==
  /\ BuilderOpen
  /\ builder.kind = "select"
  /\ builder.limit = Undef
  /\ builder' = [builder EXCEPT
       !.limit = rows,
       !.log = Append(@, [clause |-> "limit", field |-> "", value |-> rows])]
  /\ UNCHANGED <<tables, domainDB, metaDB, cache, loads, callers, calls>>

\* render()
BuilderRender ==
  /\ builder.kind # ""
  /\ ~builder.out.done
  /\ builder' = [builder EXCEPT !.out = Render(builder)]
  /\ UNCHANGED <<tables, domainDB, metaDB, cache, loads, callers, calls>>

BuilderFields == {"id", "first_name"}
BuilderValues == {1, StrA}

NextSql ==
  \/ \E kind \in {"select", "insert", "update", "delete"} : BuilderNew(kind)
  \/ \E kind \in {"select", "insert", "update", "delete"} : BuilderBare(kind)
  \/ BuilderTable("user")
  \/ \E f \in BuilderFields, v \in BuilderValues : BuilderSet(f, v)
  \/ \E f \in BuilderFields, v \in BuilderValues \cup {Null}, acceptNull \in BOOLEAN :
       BuilderEqual(f, v, acceptNull)
  \/ \E n \in {1, 2} : BuilderLimit(n)
  \/ BuilderRender

SpecSql == InitSeq /\ [][NextSql]_vars

(***************************************************************************)
(* Properties.                                                             *)
(***************************************************************************)
\* the entity type a call addresses, in the list its entityTypes() answered
CallEntity(c) ==
  EntityTypeOf(loads[callers[c].load].result, callers[c].in.code)

\* C1: an engine instance starts at most one load, whatever calls are made
\* while it runs: every call in flight holds the promise of that one load,
\* which is the cached one, and an entityTypes() call that has answered
\* returned that load's result
C1_SingleLoad ==
  /\ Len(loads) <= 1
  /\ \A c \in Callers :
       callers[c].pc # "idle" =>
         /\ callers[c].load = 1
         /\ cache = 1
         /\ (callers[c].pc = "done" /\ callers[c].in.op = "entityTypes"
               /\ callers[c].err.kind = "")
              => callers[c].types = loads[1].result

\* C1 witness: every caller has called while the one load is still
\* introspecting
C1_Witness ==
  /\ Len(loads) = 1
  /\ loads[1].pc = "introspect"
  /\ \A c \in Callers : callers[c].pc = "awaitTypes"

\* the positions of the entity types of a list that stand for a table
EntitiesOf(entityTypes, t) == {k \in DOMAIN entityTypes : entityTypes[k].table = t}

\* C2: once a load has resolved, every table of the domain store that is no
\* system table stands behind exactly one entity type of the result and
\* exactly one entityType row of the metadata store, and no system table
\* behind any, also after the code of an entity was renamed
C2_OneEntityPerTable ==
  \A l \in DOMAIN loads :
    loads[l].pc = "resolved" =>
      \A t \in Range(tables) :
        IF t \in SystemTables
        THEN /\ EntitiesOf(loads[l].result, t) = {}
             /\ EntitiesOf(metaDB.entityType, t) = {}
        ELSE /\ Cardinality(EntitiesOf(loads[l].result, t)) = 1
             /\ Cardinality(EntitiesOf(metaDB.entityType, t)) = 1

\* C3: while the engine holds a resolved load, no step starts or changes a
\* load and the cache stays (unless a new engine instance is constructed);
\* every call made joins the cached load, and an entityTypes() call that
\* answers returns the cached list without error, having issued no
\* statement and leaving both stores as they were
C3_CachedAfterSuccess ==
  [][(cache # 0 /\ loads[cache].pc = "resolved" /\ cache' # 0) =>
       /\ cache' = cache
       /\ loads' = loads
       /\ \A c \in Callers :
            /\ (callers[c].pc = "idle" /\ callers'[c].pc # "idle")
                 => callers'[c].load = cache
            /\ (callers[c].pc = "awaitTypes" /\ callers'[c].pc = "done"
                  /\ callers[c].in.op = "entityTypes")
                 => /\ callers'[c].types = loads[cache].result
                    /\ callers'[c].err = NoError
                    /\ callers'[c].issued = <<>>
                    /\ metaDB' = metaDB
                    /\ domainDB' = domainDB]_vars

\* C3 witness: the load introspected the tables and resolved, a code was
\* then renamed in the metadata store, and a later entityTypes() call of
\* the same engine has answered with the cached list
C3_Witness ==
  /\ cache = 1
  /\ loads[1].pc = "resolved"
  /\ loads[1].tasks # <<>>
  /\ \E k \in DOMAIN metaDB.entityType : metaDB.entityType[k].code = "usuario"
  /\ callers[1].pc = "done"
  /\ callers[1].in.op = "entityTypes"
  /\ callers[1].types = loads[1].result
  /\ \A k \in DOMAIN callers[1].types : callers[1].types[k].code # "usuario"

\* the position of a table in the table listing
ListingIndex(t) == CHOOSE i \in DOMAIN tables : tables[i] = t

\* C4: the result of a resolved load is the entity types read from the
\* metadata store, in the order of its rows, followed by one entity type
\* per table that was introspected, in the order of the table listing,
\* whatever the order in which the introspections finished
C4_ResultOrder ==
  \A l \in DOMAIN loads :
    loads[l].pc = "resolved" =>
      LET n == Len(loads[l].entityTypes)
          res == loads[l].result
      IN /\ Len(res) = n + Len(loads[l].tasks)
         /\ \A i \in 1..n :
              /\ res[i].id = metaDB.entityType[i].id
              /\ res[i].table = metaDB.entityType[i].table
         /\ \A j \in DOMAIN loads[l].tasks :
              /\ res[n + j].table = loads[l].tasks[j].table
              /\ res[n + j].id = loads[l].tasks[j].et.id
         /\ \A j, k \in (n + 1)..Len(res) :
              j < k => ListingIndex(res[j].table) < ListingIndex(res[k].table)

\* C4 witness: a load has resolved with two introspected tables of which
\* the second of the listing finished first
C4_Witness ==
  \E l \in DOMAIN loads :
    /\ loads[l].pc = "resolved"
    /\ Len(loads[l].tasks) = 2
    /\ loads[l].tasks[2].et.fields[3].id < loads[l].tasks[1].et.fields[3].id

\* a call of update or delete that has run its statement on the domain store
RanStatement(c) ==
  /\ callers[c].in.op \in {"update", "delete"}
  /\ callers[c].pc \in {"verify", "done"}
  /\ callers[c].issued # <<>>
  /\ callers[c].err.kind # "StoreError"

\* C5: an update or delete whose statement reported another number of
\* affected rows than one has failed with UnexpectedAffectedRowCount
\* carrying that number, having issued that one statement only (no
\* verifying read); one that went on or returned without error had exactly
\* one affected row reported, and none returns without error without
\* having run its statement
C5_ExactlyOneAffectedRow ==
  \A c \in Callers :
    /\ RanStatement(c) =>
         IF callers[c].changes = 1
         THEN callers[c].err.kind # "UnexpectedAffectedRowCount"
         ELSE /\ callers[c].pc = "done"
              /\ callers[c].err =
                   Err("UnexpectedAffectedRowCount", callers[c].in.op, callers[c].changes)
              /\ Len(callers[c].issued) = 1
              /\ callers[c].rows = <<>>
    /\ (callers[c].in.op \in {"update", "delete"} /\ callers[c].err.kind = ""
          /\ callers[c].pc \in {"verify", "done"})
         => callers[c].issued # <<>> /\ callers[c].changes = 1

\* C5 witness: an update of two rows at once (a grant addressed by user_id
\* alone) has failed with UnexpectedAffectedRowCount carrying 2
C5_Witness ==
  /\ callers[1].pc = "done"
  /\ callers[1].in.op = "update"
  /\ callers[1].err = Err("UnexpectedAffectedRowCount", "update", 2)
  /\ Len(callers[1].issued) = 1

\* the identifier fields of the entity a call addresses for which the input
\* has no defined value (absent, undefined or null)
UndefinedIdentifiers(c) ==
  LET fields == CallEntity(c)[1].fields
  IN {k \in DOMAIN fields :
        /\ Truthy(fields[k].identifier)
        /\ Get(callers[c].in.data, fields[k].code) \in {Undef, Null}}

\* C6: an update or delete whose input has no defined value for some
\* identifier field of the entity fails with an error naming the code of
\* such a field and executes no statement
C6_MissingIdentifierValue ==
  \A c \in Callers :
    (/\ callers[c].in.op \in {"update", "delete"}
     /\ callers[c].pc \in {"verify", "done"}
     /\ loads[callers[c].load].pc = "resolved"
     /\ CallEntity(c) # <<>>
     /\ UndefinedIdentifiers(c) # {})
    => /\ callers[c].pc = "done"
       /\ callers[c].issued = <<>>
       /\ \E k \in UndefinedIdentifiers(c) :
            callers[c].err.name = CallEntity(c)[1].fields[k].code

\* the rows of a table that the identifier values of the input address:
\* those holding, in every identifier field's column, the input's value
Addressed(et, rows, data) ==
  {i \in DOMAIN rows :
     \A k \in DOMAIN et.fields :
       Truthy(et.fields[k].identifier) =>
         rows[i][et.fields[k].column] = Get(data, et.fields[k].code)}

\* the columns an update is to change: those of the fields that are no
\* identifier and whose code the data holds with a value other than undefined
ColumnsToChange(et, data) ==
  {et.fields[k].column :
     k \in {j \in DOMAIN et.fields :
              /\ ~Truthy(et.fields[j].identifier)
              /\ et.fields[j].code \in DOMAIN data
              /\ data[et.fields[j].code] # Undef}}

\* the value the data holds for a column (the codes of an entity differ)
DataOfColumn(et, data, col) ==
  data[et.fields[CHOOSE k \in DOMAIN et.fields : et.fields[k].column = col].code]

\* C7: the step by which an update runs its statement with success (it goes
\* on to the verifying read) changes, in the one row its identifier values
\* address, exactly the columns of the non-identifier fields present in the
\* data with a value other than undefined, to that value (null included),
\* and leaves every other column, row and table as it was
C7_UpdateFrame ==
  [][\A c \in Callers :
       (callers[c].pc = "awaitTypes" /\ callers'[c].pc = "verify") =>
         LET et == CallEntity(c)[1]
             data == callers[c].in.data
             before == domainDB[et.table]
             after == domainDB'[et.table]
             hit == Addressed(et, before, data)
         IN /\ Cardinality(hit) = 1
            /\ \A t \in DOMAIN domainDB : t # et.table => domainDB'[t] = domainDB[t]
            /\ DOMAIN after = DOMAIN before
            /\ \A i \in DOMAIN before :
                 /\ DOMAIN after[i] = DOMAIN before[i]
                 /\ \A col \in DOMAIN before[i] :
                      after[i][col] =
                        IF i \in hit /\ col \in ColumnsToChange(et, data)
                        THEN DataOfColumn(et, data, col)
                        ELSE before[i][col]]_vars

\* C7 witness: update('user', {id: 1, middle_name: null}) has returned the
\* row: middle_name is null, first_name (absent from the data) is as it was
C7_Witness ==
  /\ callers[1].pc = "done"
  /\ callers[1].err.kind = ""
  /\ callers[1].in.op = "update"
  /\ callers[1].in.data = [id |-> 1, middle_name |-> Null]
  /\ domainDB["user"] =
       << [id |-> 1, first_name |-> StrA, middle_name |-> Null],
          [id |-> 2, first_name |-> StrB, middle_name |-> StrB] >>
  /\ Len(callers[1].rows) = 1
  /\ callers[1].rows[1].middle_name = Null

\* C8: a read with a limit n >= 0 returns at most n rows, none for n = 0,
\* and a read without limit and without ids returns every row of the table
C8_ReadLimit ==
  \A c \in Callers :
    (/\ callers[c].pc = "done"
     /\ callers[c].in.op = "read"
     /\ callers[c].err.kind = ""
     /\ ~callers[c].in.withIds)
    => IF callers[c].in.limit = Undef
       THEN Len(callers[c].rows) = Len(domainDB[CallEntity(c)[1].table])
       ELSE Len(callers[c].rows) <= callers[c].in.limit

\* the identifier fields of an entity, by position
IdentifierPositions(et) == {k \in DOMAIN et.fields : Truthy(et.fields[k].identifier)}

\* C9: a read with ids that hold nothing for an identifier field has failed
\* with MissingIdentifierField naming that field's code and has run no
\* query; with a value that is not null for each, it has run one query,
\* restricted on the columns of the identifier fields and on nothing else,
\* and returned the rows that hold the ids' values in those columns,
\* whatever else the ids hold
C9_ReadByIds ==
  \A c \in Callers :
    (/\ callers[c].pc = "done"
     /\ callers[c].in.op = "read"
     /\ callers[c].in.withIds
     /\ loads[callers[c].load].pc = "resolved"
     /\ CallEntity(c) # <<>>)
    => LET et == CallEntity(c)[1]
           ids == callers[c].in.data
           absent == {k \in IdentifierPositions(et) : et.fields[k].code \notin DOMAIN ids}
           nulls == {k \in IdentifierPositions(et) : Get(ids, et.fields[k].code) = Null}
           hit == Addressed(et, domainDB[et.table], ids)
       IN /\ absent # {} /\ nulls = {} =>
               /\ callers[c].err.kind = "MissingIdentifierField"
               /\ \E k \in absent : callers[c].err.name = et.fields[k].code
               /\ callers[c].issued = <<>>
          /\ absent = {} /\ nulls = {} =>
               /\ callers[c].err.kind = ""
               /\ Len(callers[c].issued) = 1
          /\ callers[c].issued # <<>> =>
               /\ Len(callers[c].issued[1].whereF) = Cardinality(IdentifierPositions(et))
               /\ Range(callers[c].issued[1].whereF) =
                    {et.fields[k].column : k \in IdentifierPositions(et)}
               /\ Len(callers[c].rows) = Cardinality(hit)
               /\ \A i \in DOMAIN callers[c].rows :
                    \E j \in hit :
                      \A k \in DOMAIN et.fields :
                        callers[c].rows[i][et.fields[k].code] =
                          domainDB[et.table][j][et.fields[k].column]

\* C9, the other case: read('user', {ids: {id: 1, first_name: <another row's>}})
\* has returned the row of id 1, and so the first_name key had no effect
C9_WitnessIgnoredKey ==
  /\ callers[1].pc = "done"
  /\ callers[1].in.op = "read"
  /\ callers[1].in.code = "user"
  /\ callers[1].in.withIds
  /\ callers[1].in.data = [id |-> 1, first_name |-> StrB]
  /\ callers[1].err.kind = ""
  /\ Len(callers[1].rows) = 1
  /\ callers[1].rows[1].id = 1
  /\ callers[1].rows[1].first_name = StrA

\* C9 witness: a read with ids that lack the identifier has
\* failed with MissingIdentifierField and run no query
C9_Witness ==
  /\ callers[1].pc = "done"
  /\ callers[1].in.op = "read"
  /\ callers[1].in.withIds
  /\ callers[1].err = Err("MissingIdentifierField", "id", 0)
  /\ callers[1].issued = <<>>

\* C10: every object a read returns has exactly the field codes of the
\* entity as its keys, each holding the value of the field's column in a row
\* of the entity's table; every entity type of a resolved load, renamed or
\* not, stands for a table of the domain store with that table's columns;
\* and an update that has returned without error left, under every code of
\* its data, the data's value in that field's column of the addressed row
C10_CodesOverColumns ==
  /\ \A l \in DOMAIN loads :
       loads[l].pc = "resolved" =>
         \A k \in DOMAIN loads[l].result :
           LET et == loads[l].result[k]
           IN /\ et.table \in Range(tables)
              /\ [i \in DOMAIN et.fields |-> et.fields[i].column] =
                   [i \in DOMAIN TableInfo(et.table) |-> TableInfo(et.table)[i].name]
  /\ \A c \in Callers :
       (/\ callers[c].pc = "done"
        /\ callers[c].in.op \in {"read", "update"}
        /\ callers[c].err.kind = "")
       => LET et == CallEntity(c)[1]
              data == callers[c].in.data
          IN /\ \A i \in DOMAIN callers[c].rows :
                  /\ DOMAIN callers[c].rows[i] =
                       {et.fields[k].code : k \in DOMAIN et.fields}
                  /\ \E j \in DOMAIN domainDB[et.table] :
                       \A k \in DOMAIN et.fields :
                         callers[c].rows[i][et.fields[k].code] =
                           domainDB[et.table][j][et.fields[k].column]
             /\ callers[c].in.op = "update" =>
                  \A j \in Addressed(et, domainDB[et.table], data) :
                    \A col \in ColumnsToChange(et, data) :
                      domainDB[et.table][j][col] = DataOfColumn(et, data, col)

\* C10 witness: after the entity code and a field code were renamed and a
\* new engine loaded them, update('usuario', {id: 1, primeiro_nome: ...})
\* has changed column first_name of table user and returned it under the
\* new key
C10_Witness ==
  /\ callers[1].pc = "done"
  /\ callers[1].err.kind = ""
  /\ callers[1].in.op = "update"
  /\ callers[1].in.code = "usuario"
  /\ callers[1].in.data = [id |-> 1, primeiro_nome |-> StrB]
  /\ domainDB["user"][1].first_name = StrB
  /\ Len(callers[1].rows) = 1
  /\ callers[1].rows[1].primeiro_nome = StrB
  /\ "first_name" \notin DOMAIN callers[1].rows[1]

\* the step by which a create call goes on after entityTypes() has answered
\* with the entity type it addresses
CreateStep(c) ==
  /\ callers[c].pc = "awaitTypes"
  /\ callers'[c].pc = "done"
  /\ callers[c].in.op = "create"
  /\ loads[callers[c].load].pc = "resolved"
  /\ CallEntity(c) # <<>>

\* the keys of the data of a call that are no field code of its entity
UnknownOf(c) ==
  {k \in DOMAIN callers[c].in.data :
     \A i \in DOMAIN CallEntity(c)[1].fields : CallEntity(c)[1].fields[i].code # k}

\* the positions of the mandatory fields for which the data of a call holds
\* no value (absent, undefined or null)
MandatoryMissingOf(c) ==
  {i \in DOMAIN CallEntity(c)[1].fields :
     /\ Truthy(CallEntity(c)[1].fields[i].mandatory)
     /\ Get(callers[c].in.data, CallEntity(c)[1].fields[i].code) \in {Undef, Null}}

\* C11: a create whose data holds keys that are no field code of the entity
\* fails with UnknownFields listing every such key (in the order of the
\* keys), executes no statement and leaves the domain store as it was
C11_UnknownFields ==
  [][\A c \in Callers :
       (CreateStep(c) /\ UnknownOf(c) # {}) =>
         /\ callers'[c].err =
              Err("UnknownFields",
                  Join(SelectSeq(KeyOrder, LAMBDA k : k \in UnknownOf(c))), 0)
         /\ callers'[c].issued = <<>>
         /\ domainDB' = domainDB]_vars

\* C11 witness: a create with two unknown keys has failed naming both
C11_Witness ==
  /\ callers[1].pc = "done"
  /\ callers[1].in.op = "create"
  /\ {"nickname", "age"} \subseteq DOMAIN callers[1].in.data
  /\ callers[1].err = Err("UnknownFields", "'nickname', 'age'", 0)
  /\ callers[1].issued = <<>>

Created(c) ==
  /\ callers[c].pc = "done"
  /\ callers[c].in.op = "create"
  /\ callers[c].err.kind = ""

\* the row a create call that has returned has added to the table
CreatedRow(c) ==
  LET rows == domainDB[CallEntity(c)[1].table]
  IN rows[Len(rows)]

\* the codes of the fields of the entity of a call that are marked generated
GeneratedCodes(c) ==
  {CallEntity(c)[1].fields[i].code :
     i \in {j \in DOMAIN CallEntity(c)[1].fields :
              Truthy(CallEntity(c)[1].fields[j].generated)}}

\* C13: a create that has returned without error has executed the insert
\* and nothing else, and has returned the data it was given, with the
\* generated field's code set to the id the store gave to the new row when
\* the entity has a generated field, and as it was given otherwise
C13_CreateResult ==
  \A c \in Callers :
    Created(c) =>
      LET data == callers[c].in.data
          result == callers[c].rows[1]
          given == DOMAIN data \ GeneratedCodes(c)
      IN /\ Len(callers[c].issued) = 1
         /\ callers[c].issued[1].kind = "insert"
         /\ Len(callers[c].rows) = 1
         /\ DOMAIN result = DOMAIN data \cup GeneratedCodes(c)
         /\ \A k \in given : result[k] = data[k]
         /\ \A k \in GeneratedCodes(c) :
              result[k] = CreatedRow(c)[RowidColumn(CallEntity(c)[1].table)]

\* C13 witness: create('user', {id: null, first_name: ...}) has returned
\* with id 3, the id the store gave the row, in place of the null
C13_Witness ==
  /\ Created(1)
  /\ callers[1].in.code = "user"
  /\ callers[1].in.data = [id |-> Null, first_name |-> StrA]
  /\ callers[1].rows = << [id |-> 3, first_name |-> StrA] >>
  /\ Len(domainDB["user"]) = 3

\* C14: a create whose data omits the generated field of the entity, holds
\* a value for every other mandatory field and no unknown key returns
\* without error, and the row it added holds the value the store generated
C14_GeneratedNotRequired ==
  \A c \in Callers :
    (/\ callers[c].pc = "done"
     /\ callers[c].in.op = "create"
     /\ loads[callers[c].load].pc = "resolved"
     /\ CallEntity(c) # <<>>
     /\ UnknownOf(c) = {}
     /\ GeneratedCodes(c) # {}
     /\ \A k \in GeneratedCodes(c) : k \notin DOMAIN callers[c].in.data
     /\ \A i \in MandatoryMissingOf(c) :
          CallEntity(c)[1].fields[i].code \in GeneratedCodes(c))
    => /\ callers[c].err.kind = ""
       /\ \A k \in GeneratedCodes(c) : callers[c].rows[1][k] \in 1..9

\* C15: a read with the object a create has returned as its ids, on an
\* entity with identifier fields, returns exactly one row, equal to that
\* object
C15_CreateReadRoundTrip ==
  \A c \in Callers :
    (/\ callers[c].pc = "done"
     /\ callers[c].in.op = "read"
     /\ callers[c].prev.in.op = "create"
     /\ callers[c].prev.err.kind = ""
     /\ callers[c].in \in FollowUps(callers[c].prev)
     /\ loads[callers[c].load].pc = "resolved"
     /\ IdentifierPositions(CallEntity(c)[1]) # {})
    => /\ callers[c].err.kind = ""
       /\ callers[c].rows = callers[c].prev.rows

\* a call that repeats the update its caller made before, which had
\* returned without error
RepeatedUpdate(c) ==
  /\ callers[c].in.op = "update"
  /\ callers[c].prev.in = callers[c].in
  /\ callers[c].prev.err.kind = ""

\* C16: an update made again with the same data right after it has
\* returned without error runs its statement with success and leaves the
\* domain store as the first one left it, and its verifying read returns
\* without error the row the first one returned
C16_UpdateIdempotent ==
  [][\A c \in Callers :
       RepeatedUpdate(c) =>
         /\ (callers[c].pc = "awaitTypes" /\ callers'[c].pc # "awaitTypes")
              => /\ callers'[c].pc = "verify"
                 /\ domainDB' = domainDB
         /\ (callers[c].pc = "verify" /\ callers'[c].pc # "verify")
              => /\ callers'[c].pc = "done"
                 /\ callers'[c].err = NoError
                 /\ callers'[c].rows = callers[c].prev.rows
                 /\ domainDB' = domainDB]_vars

\* C16 witness: the second of two equal updates has returned the row the
\* first one returned
C16_Witness ==
  /\ RepeatedUpdate(1)
  /\ callers[1].pc = "done"
  /\ callers[1].err.kind = ""
  /\ Len(callers[1].rows) = 1
  /\ callers[1].rows = callers[1].prev.rows
  /\ callers[1].in.data = [id |-> 1, first_name |-> StrB]
  /\ domainDB["user"][1].first_name = StrB

\* the step by which a delete call goes on after entityTypes() has answered
\* with the entity type it addresses
DeleteStep(c) ==
  /\ callers[c].pc = "awaitTypes"
  /\ callers'[c].pc = "done"
  /\ callers[c].in.op = "delete"
  /\ loads[callers[c].load].pc = "resolved"
  /\ CallEntity(c) # <<>>

\* C17: a delete whose identifier values address one row returns without
\* error, whatever other keys its ids hold; a delete that returns without
\* error has removed the one row holding the identifier values in the
\* identifier columns and left every other row of every table as it was;
\* and a read made next with the same ids returns no rows
C17_DeleteFrame ==
  [][\A c \in Callers :
       LET et == CallEntity(c)[1]
           ids == callers[c].in.data
           before == domainDB[et.table]
           hit == Addressed(et, before, ids)
       IN /\ (DeleteStep(c) /\ UndefinedIdentifiers(c) = {} /\ Cardinality(hit) = 1)
               => callers'[c].err.kind = ""
          /\ (DeleteStep(c) /\ callers'[c].err.kind = "")
               => /\ Cardinality(hit) = 1
                  /\ domainDB'[et.table] =
                       SubSeq(before, 1, Max(hit) - 1)
                         \o SubSeq(before, Max(hit) + 1, Len(before))
                  /\ \A t \in DOMAIN domainDB :
                       t # et.table => domainDB'[t] = domainDB[t]
          /\ (/\ callers[c].pc = "awaitTypes"
              /\ callers'[c].pc = "done"
              /\ callers[c].in.op = "read"
              /\ callers[c].in.withIds
              /\ callers[c].prev.in.op = "delete"
              /\ callers[c].prev.err.kind = ""
              /\ callers[c].prev.in.code = callers[c].in.code
              /\ callers[c].prev.in.data = ids)
               => /\ callers'[c].err.kind = ""
                  /\ callers'[c].rows = <<>>]_vars

\* C17 witness: delete('user', {id: 1, first_name: <another row's>}) has
\* returned without error and removed the row of id 1, and the read made
\* next with the same ids has returned no rows
C17_Witness ==
  /\ callers[1].pc = "done"
  /\ callers[1].in = In("read", "user", TRUE, [id |-> 1, first_name |-> StrB], Undef)
  /\ callers[1].prev.in = In("delete", "user", TRUE, [id |-> 1, first_name |-> StrB], Undef)
  /\ callers[1].prev.err.kind = ""
  /\ callers[1].err.kind = ""
  /\ callers[1].rows = <<>>
  /\ domainDB["user"] = << [id |-> 2, first_name |-> StrB, middle_name |-> StrB] >>

\* the attributes of a field that tell how the engine treats it, the flags
\* by their truth (the metadata store keeps them as 0 and 1)
FieldAttributes(f) ==
  [name |-> f.name, code |-> f.code, column |-> f.column, type |-> f.type,
   identifier |-> Truthy(f.identifier), hidden |-> Truthy(f.hidden),
   mandatory |-> Truthy(f.mandatory), generated |-> Truthy(f.generated)]

\* the attributes of an entity type and of its fields, in field order
EntityAttributes(et) ==
  [name |-> et.name, code |-> et.code, table |-> et.table,
   titleFormat |-> et.titleFormat,
   fields |-> [i \in DOMAIN et.fields |-> FieldAttributes(et.fields[i])]]

\* C18: every entity type a load has read from the metadata store has the
\* attributes that introspection infers for its table, for the entity and
\* for each field in field order, generated included
C18_MetadataRoundTrip ==
  \A l \in DOMAIN loads :
    loads[l].pc = "resolved" =>
      \A k \in DOMAIN loads[l].entityTypes :
        EntityAttributes(loads[l].result[k]) =
          EntityAttributes(InferEntity(loads[l].result[k].table,
                                       TableInfo(loads[l].result[k].table), <<>>))

\* C19: a create, update or delete that returns an error leaves the domain
\* store, by the step in which it fails, with the rows it held
C19_AllOrNothing ==
  [][\A c \in Callers :
       (/\ callers[c].in.op \in {"create", "update", "delete"}
        /\ callers[c].pc # "done"
        /\ callers'[c].pc = "done"
        /\ callers'[c].err.kind # "")
       => domainDB' = domainDB]_vars

\* the values of the calls of one clause a builder's user has made, in the
\* order of the calls
CalledValues(clause) ==
  LET mine == SelectSeq(builder.log, LAMBDA x : x.clause = clause)
  IN [i \in DOMAIN mine |-> mine[i].value]

\* the number of ? placeholders in a rendered text
Placeholders(sql) ==
  LET RECURSIVE count(_)
      count(lines) ==
        IF lines = <<>> THEN 0
        ELSE Len(SelectSeq(Head(lines), LAMBDA word : word = "?")) + count(Tail(lines))
  IN count(sql)

\* C20: a statement rendered without error has its clauses in the fixed
\* order (Select: SELECT, FROM, WHERE, LIMIT; Update: UPDATE, SET, WHERE;
\* Delete: DELETE, WHERE; Insert: INSERT INTO, the fields, VALUES), a clause
\* that was never called being absent; its parameters are the values set,
\* then the values restricted on, then the limit, each in the order of the
\* calls of that clause, however the calls of the clauses were interleaved;
\* and the text holds as many ? as there are parameters
C20_RenderOrder ==
  (builder.out.done /\ builder.out.err.kind = "") =>
    LET out == builder.out
        heads == [i \in DOMAIN out.sql |-> out.sql[i][1]]
        where == IF CalledValues("where") = <<>> THEN <<>> ELSE <<"WHERE">>
        limit == IF CalledValues("limit") = <<>> THEN <<>> ELSE <<"LIMIT">>
    IN /\ out.params =
            CalledValues("set") \o CalledValues("where") \o CalledValues("limit")
       /\ Placeholders(out.sql) = Len(out.params)
       /\ builder.kind = "select" => heads = <<"SELECT", "FROM">> \o where \o limit
       /\ builder.kind = "update" => heads = <<"UPDATE", "SET", "WHERE">>
       /\ builder.kind = "delete" => heads = <<"DELETE", "WHERE">>
       /\ builder.kind = "insert" =>
            /\ heads[1] = "INSERT"
            /\ Len(out.sql[2]) = Len(out.params)

\* C20 witness: an Update rendered after where.equal, attrib.set and
\* where.equal were called in that order has the value set first among
\* its parameters
C20_Witness ==
  /\ builder.kind = "update"
  /\ builder.out.done
  /\ builder.out.err.kind = ""
  /\ [i \in DOMAIN builder.log |-> builder.log[i].clause] = <<"where", "set", "where">>
  /\ builder.out.params =
       <<builder.log[2].value, builder.log[1].value, builder.log[3].value>>
  /\ builder.log[1].value # builder.log[2].value

\* C21: a builder that lacks a required clause renders no statement: render
\* fails with FromNotSet, IntoNotSet or TableNotSet when the table was never
\* given, else with NoFieldsSet for an Insert without a set, with
\* NoAttributionsSet for an Update without a set, with NoWhereRestrictions
\* for an Update or a Delete without a restriction; every other builder
\* renders, a Select without restrictions among them
C21_RequiredClauses ==
  builder.out.done =>
    LET expected ==
          CASE builder.table = "" /\ builder.kind = "select" -> "FromNotSet"
            [] builder.table = "" /\ builder.kind = "insert" -> "IntoNotSet"
            [] builder.table = "" /\ builder.kind \in {"update", "delete"} -> "TableNotSet"
            [] OTHER ->
               CASE builder.kind = "insert" /\ CalledValues("set") = <<>> -> "NoFieldsSet"
                 [] builder.kind = "update" /\ CalledValues("set") = <<>> -> "NoAttributionsSet"
                 [] builder.kind \in {"update", "delete"} /\ CalledValues("set") # <<>>
                      /\ CalledValues("where") = <<>> -> "NoWhereRestrictions"
                 [] builder.kind = "delete" /\ CalledValues("where") = <<>> -> "NoWhereRestrictions"
                 [] OTHER -> ""
    IN /\ builder.out.err.kind = expected
       /\ expected # "" => builder.out.sql = <<>> /\ builder.out.params = <<>>
       /\ expected = "" => builder.out.sql # <<>>

\* C21 witness: an Update with its table and an attribution, rendered
\* without any restriction
C21_Witness ==
  /\ builder.kind = "update"
  /\ builder.table # ""
  /\ builder.out.done
  /\ CalledValues("set") # <<>>
  /\ builder.out.err.kind = "NoWhereRestrictions"
  /\ builder.out.sql = <<>>

\* C22: where.equal(column, null) without acceptNull fails with
\* NullNotAccepted naming the column and adds no restriction; every other
\* call (null with acceptNull among them) adds its restriction; and a
\* statement rendered afterwards holds exactly the accepted restrictions,
\* each as column = ?, joined with AND in the order of the calls, with
\* their values (null included) as parameters in that order
C22_NullRestriction ==
  [][ /\ ( /\ Len(builder'.log) = Len(builder.log) + 1
           /\ builder'.log[Len(builder'.log)].clause \in {"where", "threw"} ) =>
          LET e == builder'.log[Len(builder'.log)]
          IN IF e.value = Null /\ ~e.acceptNull
             THEN /\ e.clause = "threw"
                  /\ e.err = Err("NullNotAccepted", e.field, 0)
                  /\ builder'.where = builder.where
             ELSE /\ e.clause = "where"
                  /\ builder'.where.fields = Append(builder.where.fields, e.field)
                  /\ builder'.where.values = Append(builder.where.values, e.value)
      /\ ( /\ ~builder.out.done
           /\ builder'.out.done
           /\ builder'.out.err.kind = ""
           /\ builder.kind \in {"select", "update", "delete"} ) =>
          LET accepted == SelectSeq(builder.log, LAMBDA e : e.clause = "where")
              n == Len(accepted)
              lines == SelectSeq(builder'.out.sql, LAMBDA l : l[1] = "WHERE")
              before == Len(CalledValues("set"))
          IN IF n = 0 THEN lines = <<>>
             ELSE /\ Len(lines) = 1
                  /\ Len(lines[1]) = 4 * n
                  /\ \A i \in 1..n :
                       /\ lines[1][4 * i - 2] = accepted[i].field
                       /\ lines[1][4 * i - 1] = "="
                       /\ lines[1][4 * i] = "?"
                       /\ i < n => lines[1][4 * i + 1] = "AND"
                       /\ builder'.out.params[before + i] = accepted[i].value
    ]_vars

\* C22 witness: a Select rendered after a restriction, a rejected
\* restriction on null and a restriction on null with acceptNull
C22_Witness ==
  /\ builder.kind = "select"
  /\ builder.out.done
  /\ builder.out.err.kind = ""
  /\ [i \in DOMAIN builder.log |-> builder.log[i].clause] = <<"where", "threw", "where">>
  /\ builder.log[2].err = Err("NullNotAccepted", "first_name", 0)
  /\ builder.log[3].value = Null
  /\ builder.out.params = <<1, Null>>
  /\ builder.out.sql[3] = <<"WHERE", "id", "=", "?", "AND", "first_name", "=", "?">>

\* C23: in every result of a load a field is an identifier, and hidden,
\* exactly when its column is part of the primary key of its table, and no
\* two rows of the table agree on all the identifier columns
C23_IdentifierIffPrimaryKey ==
  \A l \in DOMAIN loads :
    loads[l].pc = "resolved" =>
      \A k \in DOMAIN loads[l].result :
        LET et == loads[l].result[k]
            info == TableInfo(et.table)
            ids == {et.fields[j].column : j \in {j \in DOMAIN et.fields :
                                                  Truthy(et.fields[j].identifier)}}
            rows == domainDB[et.table]
        IN /\ \A j \in DOMAIN et.fields :
                \A n \in DOMAIN info :
                  info[n].name = et.fields[j].column =>
                    /\ Truthy(et.fields[j].identifier) <=> (info[n].pk > 0)
                    /\ Truthy(et.fields[j].hidden) <=> (info[n].pk > 0)
           /\ \A a, b \in DOMAIN rows :
                a # b => \E col \in ids : rows[a][col] # rows[b][col]

\* C24: no update whose statement reported one affected row fails with
\* UnexpectedReadCount, whatever the other callers do in between
C24_UpdateReadsItsRow ==
  \A c \in Callers :
    (callers[c].in.op = "update" /\ callers[c].pc = "done")
      => callers[c].err.kind # "UnexpectedReadCount"

\* C25: a call made while the engine holds a load that has failed starts a
\* new load and waits for that one
C25_FailedLoadNotCached ==
  [][\A c \in Callers :
       (/\ callers[c].pc = "idle"
        /\ callers'[c].pc = "awaitTypes"
        /\ cache # 0
        /\ loads[cache].pc = "rejected")
       => (/\ Len(loads') = Len(loads) + 1
           /\ callers'[c].load = Len(loads'))]_vars

\* C28: the placeholder of a field that is no identifier is the value of
\* its column in the sampled row whenever the table had a row, and null
\* when the table had no row or the field is an identifier
C28_PlaceholderIsSample ==
  \A l \in DOMAIN loads :
    \A i \in DOMAIN loads[l].tasks :
      loads[l].tasks[i].pc \in {"entity", "field", "done"} =>
        LET task == loads[l].tasks[i]
        IN \A k \in DOMAIN task.et.fields :
             task.et.fields[k].placeholder =
               IF Truthy(task.et.fields[k].identifier) \/ task.examples = <<>>
               THEN Null
               ELSE task.examples[1][task.et.fields[k].column]

\* C26: a table with a column whose native type is neither INTEGER nor
\* TEXT is never introspected past its column listing: its callback fails
\* with UnsupportedColumnType, so does the load and every call that waited
\* for it, and the metadata store holds no entityType row of that table and
\* no fieldType row outside the entity types of the other tables
C26_UnsupportedColumnType ==
  \A l \in DOMAIN loads :
    \A i \in DOMAIN loads[l].tasks :
      LET task == loads[l].tasks[i]
          info == TableInfo(task.table)
      IN (\E n \in DOMAIN info : info[n].type \notin {"INTEGER", "TEXT"}) =>
           /\ task.pc \in {"sample", "pragma", "failed"}
           /\ task.pc = "failed" =>
                /\ task.err.kind = "UnsupportedColumnType"
                /\ loads[l].pc = "rejected"
                /\ loads[l].err.kind = "UnsupportedColumnType"
           /\ loads[l].pc # "resolved"
           /\ \A c \in Callers :
                (callers[c].load = l /\ callers[c].pc = "done")
                  => callers[c].err.kind = "UnsupportedColumnType"
           /\ EntitiesOf(metaDB.entityType, task.table) = {}
           /\ \A f \in DOMAIN metaDB.fieldType :
                \E k \in DOMAIN metaDB.entityType :
                  /\ metaDB.entityType[k].id = metaDB.fieldType[f].entityTypeId
                  /\ metaDB.entityType[k].table # task.table

\* C26 witness: an entityTypes() call has returned UnsupportedColumnType
\* for table blob after the table next to it was persisted
C26_Witness ==
  \E c \in Callers :
    /\ callers[c].pc = "done"
    /\ callers[c].in.op = "entityTypes"
    /\ callers[c].err.kind = "UnsupportedColumnType"
    /\ \E i \in DOMAIN loads[callers[c].load].tasks :
         /\ loads[callers[c].load].tasks[i].table = "blob"
         /\ loads[callers[c].load].tasks[i].pc = "failed"
    /\ EntitiesOf(metaDB.entityType, "user") # {}
    /\ metaDB.fieldType # <<>>

\* C27: whenever no load is under way, every entityType row of the
\* metadata store has at least one fieldType row, and every entity type a
\* load has answered has at least one field
C27_EntityHasFields ==
  (\A l \in DOMAIN loads :
     /\ Settled(l)
     /\ \A i \in DOMAIN loads[l].tasks : loads[l].tasks[i].pc \in {"done", "failed"})
  => /\ \A k \in DOMAIN metaDB.entityType :
          \E f \in DOMAIN metaDB.fieldType :
            metaDB.fieldType[f].entityTypeId = metaDB.entityType[k].id
     /\ \A l \in DOMAIN loads :
          loads[l].pc = "resolved" =>
            \A k \in DOMAIN loads[l].result : loads[l].result[k].fields # <<>>

\* C29: every UPDATE and DELETE statement a call has issued carries at
\* least one restriction; and an update or delete of an entity type that
\* has no identifier field ends, in the step that resumes it, with an error
\* of the statement builder, no statement issued and the domain store as
\* it was
C29_NoUnrestrictedChange ==
  [][\A c \in Callers :
       (/\ callers[c].in.op \in {"update", "delete"}
        /\ callers[c].pc = "awaitTypes"
        /\ callers'[c].pc # "awaitTypes")
       => /\ \A n \in DOMAIN callers'[c].issued :
               callers'[c].issued[n].kind \in {"update", "delete"}
                 => callers'[c].issued[n].whereF # <<>>
          /\ ( /\ loads[callers[c].load].pc = "resolved"
               /\ CallEntity(c) # <<>>
               /\ IdentifierPositions(CallEntity(c)[1]) = {} )
             => /\ callers'[c].pc = "done"
                /\ callers'[c].err.kind \in {"NoWhereRestrictions", "NoAttributionsSet"}
                /\ callers'[c].issued = <<>>
                /\ domainDB' = domainDB]_vars

\* C29 witness: a delete of a row of table note, which has no primary key,
\* has failed with NoWhereRestrictions without a statement, and the table
\* holds its rows
C29_Witness ==
  \E c \in Callers :
    /\ callers[c].in.op = "delete"
    /\ callers[c].in.code = "note"
    /\ callers[c].pc = "done"
    /\ callers[c].err.kind = "NoWhereRestrictions"
    /\ callers[c].issued = <<>>
    /\ domainDB["note"] = InitialRows("note")
    /\ IdentifierPositions(CallEntity(c)[1]) = {}
    /\ CallEntity(c)[1].fields # <<>>

\* C30: every call that waits for entityTypes() (its own load or the load
\* in flight it joined) eventually goes on with the result or the error of
\* that load, and every load started eventually resolves or rejects
C30_Termination ==
  /\ \A c \in Callers :
       (callers[c].pc = "awaitTypes") ~> (callers[c].pc \in {"verify", "done"})
  /\ \A l \in 1..MaxCalls :
       (l \in DOMAIN loads /\ cache = l)
         ~> (l \notin DOMAIN loads \/ cache # l \/ loads[l].pc \in {"resolved", "rejected"})

\* C30 witness: two entityTypes() calls that waited for the same load have
\* both ended with the error of that load
C30_Witness ==
  /\ callers[1].load = callers[2].load
  /\ \A c \in {1, 2} :
       /\ callers[c].pc = "done"
       /\ callers[c].in.op = "entityTypes"
       /\ callers[c].err.kind = "UnsupportedColumnType"
  /\ loads[callers[1].load].pc = "rejected"

====
